---- MODULE Spec2Model ----
(***************************************************************************)
(* Rules engine of the chess program: GameState, FEN codec, primary and    *)
(* final move validation, MovePiece / PromotePawn / UndoMove / RedoMove,   *)
(* end-of-game detection and the click controller that drives them.        *)
(*                                                                         *)
(* A square is <<row, col>>, row 0 = FEN's first rank (black back rank).    *)
(* The GameState struct is one record; the per-cell bit flags of the C     *)
(* code (vulnerable, isvalid, JustMoved, PawnMovedTwo) are kept as sets of *)
(* squares, board[r][c] holds the Piece fields type / team / hasMoved.     *)
(***************************************************************************)
EXTENDS Integers, Sequences, FiniteSets, Bags, TLC

VARIABLES state, CellX, CellY, game, steps, undos, loads, freed, last, prev, seen

vars == <<state, CellX, CellY, game, steps, undos, loads, freed, last, prev, seen>>

-----------------------------------------------------------------------------
(* Program constants                                                       *)

BOARD_SIZE == 8
MAX_HALF_FULL_MOVE_DIGITS == 10

PIECE_NONE == 0
PIECE_KING == 1
PIECE_QUEEN == 2
PIECE_ROOK == 3
PIECE_BISHOP == 4
PIECE_KNIGHT == 5
PIECE_PAWN == 6

TEAM_WHITE == 0
TEAM_BLACK == 1

WHITE_BACK_RANK == 7
BLACK_BACK_RANK == 0
KING_START_COL == 4
ROOK_QS_COL == 0
ROOK_KS_COL == 7
CASTLE_KS_KING_COL == 6
CASTLE_QS_KING_COL == 2
CASTLE_KS_ROOK_COL == 5
CASTLE_QS_ROOK_COL == 3

HalfMoveBits == 128

Idx == 0..(BOARD_SIZE - 1)
Squares == Idx \X Idx
Teams == {TEAM_WHITE, TEAM_BLACK}

OnBoard(r, c) == r >= 0 /\ r < BOARD_SIZE /\ c >= 0 /\ c < BOARD_SIZE

Other(team) == IF team = TEAM_WHITE THEN TEAM_BLACK ELSE TEAM_WHITE

Abs(x) == IF x < 0 THEN -x ELSE x

-----------------------------------------------------------------------------
(* Cells                                                                   *)

EmptyPiece == [type |-> PIECE_NONE, team |-> TEAM_WHITE, hasMoved |-> FALSE]

EmptyBoard == [r \in Idx |-> [c \in Idx |-> EmptyPiece]]

\* SetEmptyCell: type NONE, hasMoved 0, team WHITE
SetEmptyCell(b, r, c) == [b EXCEPT ![r][c] = EmptyPiece]

\* LoadPiece / LoadHelper on GAME_BOARD: bounds check, then type and team
\* are written; hasMoved and the cell flags are left as they are.
LoadPiece(b, r, c, type, team) ==
    IF ~OnBoard(r, c) \/ type \notin PIECE_KING..PIECE_PAWN
    THEN b
    ELSE [b EXCEPT ![r][c].type = type, ![r][c].team = team]

-----------------------------------------------------------------------------
(* Primary validation: squares a piece marks.  The C code writes the mark  *)
(* into primaryValid when the piece's team is Turn and into vulnerable     *)
(* otherwise; the operators return the set of marked squares.              *)

\* HandleLinearSquare folded into one ray: empty -> mark, go on;
\* enemy -> mark, stop; own piece -> mark only for the opponent scan, stop.
RECURSIVE Ray(_, _, _, _, _, _, _)
Ray(b, trn, team, r, c, dr, dc) ==
    IF ~OnBoard(r, c) THEN {}
    ELSE IF b[r][c].type = PIECE_NONE
         THEN {<<r, c>>} \cup Ray(b, trn, team, r + dr, c + dc, dr, dc)
         ELSE IF b[r][c].team # team THEN {<<r, c>>}
              ELSE IF trn # team THEN {<<r, c>>} ELSE {}

RaycastRook(b, trn, r, c, team) ==
    Ray(b, trn, team, r + 1, c, 1, 0) \cup Ray(b, trn, team, r - 1, c, -1, 0) \cup
    Ray(b, trn, team, r, c + 1, 0, 1) \cup Ray(b, trn, team, r, c - 1, 0, -1)

RaycastBishop(b, trn, r, c, team) ==
    Ray(b, trn, team, r + 1, c + 1, 1, 1) \cup Ray(b, trn, team, r + 1, c - 1, 1, -1) \cup
    Ray(b, trn, team, r - 1, c + 1, -1, 1) \cup Ray(b, trn, team, r - 1, c - 1, -1, -1)

\* one diagonal of HandlePawnMove
PawnDiagonal(b, trn, team, r, c) ==
    IF c >= 0 /\ c < BOARD_SIZE /\ b[r][c].team # team
    THEN IF trn = team /\ b[r][c].type # PIECE_NONE THEN {<<r, c>>}
         ELSE IF trn # team THEN {<<r, c>>} ELSE {}
    ELSE {}

HandlePawnMove(b, trn, r, c, team, moved) ==
    LET dir == IF team = TEAM_BLACK THEN 1 ELSE -1
        r1 == r + dir
        r2 == r + 2 * dir
    IN  IF r1 < 0 \/ r1 >= BOARD_SIZE THEN {}
        ELSE (IF b[r1][c].type = PIECE_NONE
              THEN (IF trn = team THEN {<<r1, c>>} ELSE {}) \cup
                   (IF ~moved /\ r2 >= 0 /\ r2 < BOARD_SIZE
                       /\ b[r2][c].type = PIECE_NONE /\ trn = team
                    THEN {<<r2, c>>} ELSE {})
              ELSE {})
             \cup PawnDiagonal(b, trn, team, r1, c + 1)
             \cup PawnDiagonal(b, trn, team, r1, c - 1)

HandleKnightSquare(b, r, c, team) ==
    IF OnBoard(r, c) /\ (b[r][c].team # team \/ b[r][c].type = PIECE_NONE)
    THEN {<<r, c>>} ELSE {}

KnightOffsets ==
    {<<2, -1>>, <<2, 1>>, <<-2, -1>>, <<-2, 1>>, <<-1, 2>>, <<1, 2>>, <<-1, -2>>, <<1, -2>>}

HandleKnightMove(b, r, c, team) ==
    UNION {HandleKnightSquare(b, r + o[1], c + o[2], team) : o \in KnightOffsets}

\* HandleKingMove: adjacent squares that are not flagged vulnerable and do
\* not hold a piece of the king's own team.
HandleKingMove(b, vul, r, c, team) ==
    {sq \in Squares :
        /\ Abs(sq[1] - r) <= 1 /\ Abs(sq[2] - c) <= 1 /\ sq # <<r, c>>
        /\ sq \notin vul
        /\ (b[sq[1]][sq[2]].team # team \/ b[sq[1]][sq[2]].type = PIECE_NONE)}

MoveValidation(b, trn, vul, r, c, type, team, moved) ==
    CASE type = PIECE_ROOK   -> RaycastRook(b, trn, r, c, team)
      [] type = PIECE_BISHOP -> RaycastBishop(b, trn, r, c, team)
      [] type = PIECE_QUEEN  -> RaycastRook(b, trn, r, c, team) \cup RaycastBishop(b, trn, r, c, team)
      [] type = PIECE_PAWN   -> HandlePawnMove(b, trn, r, c, team, moved)
      [] type = PIECE_KNIGHT -> HandleKnightMove(b, r, c, team)
      [] type = PIECE_KING   -> HandleKingMove(b, vul, r, c, team)
      [] OTHER -> {}

\* ScanEnemyMoves: every piece whose team is not Turn marks vulnerable.  The
\* enemy king skips squares already flagged, which leaves the union as is.
ScanEnemyMoves(b, trn) ==
    UNION {MoveValidation(b, trn, {}, sq[1], sq[2], b[sq[1]][sq[2]].type,
                          b[sq[1]][sq[2]].team, b[sq[1]][sq[2]].hasMoved) :
           sq \in {q \in Squares : b[q[1]][q[2]].type # PIECE_NONE /\ b[q[1]][q[2]].team # trn}}

\* SimCheckValidation: some king of Turn's team stands on a vulnerable square
SimCheckValidation(b, trn, vul) ==
    \E sq \in vul : b[sq[1]][sq[2]].team = trn /\ b[sq[1]][sq[2]].type = PIECE_KING

\* MoveSimulation: only the destination's team and the two types change; the
\* three writes are made in this order, the destination's type last
MoveSimulation(b, r1, c1, r2, c2, piece) ==
    [b EXCEPT ![r2][c2].team = b[r1][c1].team, ![r1][c1].type = PIECE_NONE, ![r2][c2].type = piece]

\* UndoSimulation: the two types and the destination's team are written back
UndoSimulation(b, r1, c1, r2, c2, piece1, piece2, team2) ==
    [b EXCEPT ![r1][c1].type = piece1, ![r2][c2].type = piece2, ![r2][c2].team = team2]

\* one candidate of FinalValidation / CheckmateFlagCheck: simulate, rescan,
\* SimCheckValidation
SimChecked(b, trn, r1, c1, r2, c2) ==
    LET b2 == MoveSimulation(b, r1, c1, r2, c2, b[r1][c1].type)
    IN  SimCheckValidation(b2, trn, ScanEnemyMoves(b2, trn))

-----------------------------------------------------------------------------
(* Selection: PrimaryValidation(selected) and FinalValidation              *)

Player(s, team) == IF team = TEAM_WHITE THEN s.whitePlayer ELSE s.blackPlayer

\* one wing of PrimaryCastlingValidation: right set, squares between king
\* and rook empty, transit and landing square not flagged vulnerable
CastlingWing(s, rank, right, between, kingCol, rookCol) ==
    IF right /\ (\A c \in between : s.board[rank][c].type = PIECE_NONE)
       /\ <<rank, kingCol>> \notin s.vulnerable /\ <<rank, rookCol>> \notin s.vulnerable
    THEN {<<rank, kingCol>>} ELSE {}

PrimaryCastlingValidation(s) ==
    LET rank == IF s.turn = TEAM_WHITE THEN WHITE_BACK_RANK ELSE BLACK_BACK_RANK
        qs == IF s.turn = TEAM_WHITE THEN s.whiteQueenSide ELSE s.blackQueenSide
        ks == IF s.turn = TEAM_WHITE THEN s.whiteKingSide ELSE s.blackKingSide
    IN  IF s.board[rank][KING_START_COL].type = PIECE_KING /\ ~Player(s, s.turn).Checked
        THEN CastlingWing(s, rank, qs, {1, CASTLE_QS_KING_COL, CASTLE_QS_ROOK_COL},
                          CASTLE_QS_KING_COL, CASTLE_QS_ROOK_COL)
             \cup CastlingWing(s, rank, ks, {CASTLE_KS_ROOK_COL, CASTLE_KS_KING_COL},
                               CASTLE_KS_KING_COL, CASTLE_KS_ROOK_COL)
        ELSE {}

PrimaryEnpassantValidation(s, row, col) ==
    LET epRow == IF s.turn = TEAM_WHITE THEN 3 ELSE 4
        dir == IF s.turn = TEAM_WHITE THEN -1 ELSE 1
        Side(c) == IF c >= 0 /\ c < BOARD_SIZE
                      /\ <<row, c>> \in s.JustMoved /\ <<row, c>> \in s.PawnMovedTwo
                   THEN {<<row + dir, c>>} ELSE {}
    IN  IF s.board[row][col].type = PIECE_PAWN /\ row = epRow
        THEN Side(col + 1) \cup Side(col - 1)
        ELSE {}

\* PrimaryValidation: the squares that end up flagged primaryValid.  A piece
\* that is not of Turn's team marks vulnerable instead and flags none.
PrimaryValidation(s, Piece, r, c, selected) ==
    LET p == s.board[r][c]
        marks == IF p.team = s.turn
                 THEN MoveValidation(s.board, s.turn, s.vulnerable, r, c, Piece, p.team, p.hasMoved)
                 ELSE {}
    IN  marks
        \cup (IF Piece = PIECE_KING /\ selected THEN PrimaryCastlingValidation(s) ELSE {})
        \cup (IF Piece = PIECE_PAWN /\ selected THEN PrimaryEnpassantValidation(s, r, c) ELSE {})

\* the enPassantCol byproduct at the end of FinalValidation
FinalEnPassantCol(s, valid, r, c) ==
    LET dr == IF s.turn = TEAM_WHITE THEN r - 1 ELSE r + 1
        Hit(cc) == cc >= 0 /\ cc < BOARD_SIZE /\ <<dr, cc>> \in valid
                   /\ s.board[dr][cc].type = PIECE_NONE
    IN  IF s.board[r][c].type # PIECE_PAWN THEN s.enPassantCol
        ELSE IF Hit(c - 1) THEN c - 1
        ELSE IF Hit(c + 1) THEN c + 1
        ELSE s.enPassantCol

\* FinalValidation(CellX, CellY, true) for the primaryValid set pv
FinalValidation(s, r, c, pv) ==
    LET valid == {d \in pv : ~SimChecked(s.board, s.turn, r, c, d[1], d[2])}
        isv == (s.isvalid \ pv) \cup valid
    IN  [s EXCEPT !.isvalid = isv,
                  !.vulnerable = IF pv = {} THEN s.vulnerable ELSE ScanEnemyMoves(s.board, s.turn),
                  !.enPassantCol = FinalEnPassantCol(s, isv, r, c)]

-----------------------------------------------------------------------------
(* End-of-game detection                                                   *)

RowMajorLess(a, b) == a[1] < b[1] \/ (a[1] = b[1] /\ a[2] < b[2])

\* the flag of the side not to move is left as it was
CheckValidationKeepsOther(s) ==
    LET kings == {q \in Squares : s.board[q[1]][q[2]].team = s.turn
                                    /\ s.board[q[1]][q[2]].type = PIECE_KING}
        hit == kings # {} /\
               (CHOOSE k \in kings : \A o \in kings : o = k \/ RowMajorLess(k, o)) \in s.vulnerable
    IN  IF ~hit THEN s
        ELSE IF s.turn = TEAM_WHITE THEN [s EXCEPT !.whitePlayer.Checked = TRUE]
                                    ELSE [s EXCEPT !.blackPlayer.Checked = TRUE]

\* CheckValidation: the opponent's flag is cleared; the first king of Turn's
\* team in row-major order decides Turn's flag (it is only ever set here)
CheckValidation(s) ==
    LET kings == {q \in Squares : s.board[q[1]][q[2]].team = s.turn
                                    /\ s.board[q[1]][q[2]].type = PIECE_KING}
        hit == kings # {} /\
               (CHOOSE k \in kings : \A o \in kings : o = k \/ RowMajorLess(k, o)) \in s.vulnerable
        s1 == IF s.turn = TEAM_WHITE THEN [s EXCEPT !.blackPlayer.Checked = FALSE]
                                     ELSE [s EXCEPT !.whitePlayer.Checked = FALSE]
    IN  IF ~hit THEN s1
        ELSE IF s.turn = TEAM_WHITE THEN [s1 EXCEPT !.whitePlayer.Checked = TRUE]
                                    ELSE [s1 EXCEPT !.blackPlayer.Checked = TRUE]

\* CheckmateFlagCheck: TRUE when no primaryValid candidate (selected = false,
\* so neither castling nor en passant) of any piece of playerTeam leaves the
\* king of Turn unattacked after MoveSimulation.
CheckmateFlagCheck(s, playerTeam) ==
    \A q \in Squares :
        (s.board[q[1]][q[2]].team = playerTeam /\ s.board[q[1]][q[2]].type # PIECE_NONE)
        => \A d \in PrimaryValidation(s, s.board[q[1]][q[2]].type, q[1], q[2], FALSE) :
               SimChecked(s.board, s.turn, q[1], q[2], d[1], d[2])

\* the flag pair written for one team by StalemateValidation
StalemateFlags(s, team, res) ==
    IF team = TEAM_WHITE
    THEN [s EXCEPT !.whitePlayer.Stalemate = res, !.isStalemate = IF res THEN TRUE ELSE @]
    ELSE [s EXCEPT !.blackPlayer.Stalemate = res, !.isStalemate = IF res THEN TRUE ELSE @]

\* both players' Stalemate flags cleared at entry
StalemateReset(s) == [s EXCEPT !.whitePlayer.Stalemate = FALSE, !.blackPlayer.Stalemate = FALSE]

\* the branch for the side to move, taken when that side is not Checked
StalemateOfTurn(s0) ==
    IF s0.turn = TEAM_WHITE
    THEN IF ~s0.whitePlayer.Checked
         THEN StalemateFlags(s0, TEAM_WHITE, CheckmateFlagCheck(s0, TEAM_WHITE))
         ELSE s0
    ELSE IF ~s0.blackPlayer.Checked
         THEN StalemateFlags(s0, TEAM_BLACK, CheckmateFlagCheck(s0, TEAM_BLACK))
         ELSE s0

StalemateValidation(s) == StalemateOfTurn(StalemateReset(s))

\* the flag pair written for one team by CheckmateValidation
CheckmateFlags(s, team, res) ==
    IF team = TEAM_WHITE
    THEN [s EXCEPT !.whitePlayer.Checkmated = res, !.isCheckmate = IF res THEN TRUE ELSE @]
    ELSE [s EXCEPT !.blackPlayer.Checkmated = res, !.isCheckmate = IF res THEN TRUE ELSE @]

\* one of the two tests of CheckmateValidation: a Checked player is examined
CheckmateOf(s, team) ==
    IF Player(s, team).Checked THEN CheckmateFlags(s, team, CheckmateFlagCheck(s, team)) ELSE s

\* White is examined first, then Black
CheckmateValidation(s) == CheckmateOf(CheckmateOf(s, TEAM_WHITE), TEAM_BLACK)

\* the colours of the bishops' squares are not compared
CheckInsufficientMaterialAnyColour(s) ==
    LET Occ == {q \in Squares : s.board[q[1]][q[2]].type # PIECE_NONE}
        Heavy == {q \in Occ : s.board[q[1]][q[2]].type \in {PIECE_QUEEN, PIECE_ROOK, PIECE_PAWN}}
        Minor(team) == {q \in Occ : s.board[q[1]][q[2]].type \in {PIECE_KNIGHT, PIECE_BISHOP}
                                      /\ s.board[q[1]][q[2]].team = team}
        Bishops(team) == {q \in Minor(team) : s.board[q[1]][q[2]].type = PIECE_BISHOP}
    IN  /\ Heavy = {}
        /\ \/ Cardinality(Minor(TEAM_WHITE)) + Cardinality(Minor(TEAM_BLACK)) <= 1
           \/ /\ Cardinality(Minor(TEAM_WHITE)) = 1 /\ Cardinality(Minor(TEAM_BLACK)) = 1
              /\ Cardinality(Bishops(TEAM_WHITE)) = 1 /\ Cardinality(Bishops(TEAM_BLACK)) = 1

\* CheckInsufficientMaterial, as the scan computes it
CheckInsufficientMaterial(s) ==
    LET Occ == {q \in Squares : s.board[q[1]][q[2]].type # PIECE_NONE}
        Heavy == {q \in Occ : s.board[q[1]][q[2]].type \in {PIECE_QUEEN, PIECE_ROOK, PIECE_PAWN}}
        Minor(team) == {q \in Occ : s.board[q[1]][q[2]].type \in {PIECE_KNIGHT, PIECE_BISHOP}
                                      /\ s.board[q[1]][q[2]].team = team}
        Bishops(team) == {q \in Minor(team) : s.board[q[1]][q[2]].type = PIECE_BISHOP}
        whiteMinorPieces == Cardinality(Minor(TEAM_WHITE))
        blackMinorPieces == Cardinality(Minor(TEAM_BLACK))
        \* colour of the last bishop met in row-major order
        SquareColor(bs) == LET l == CHOOSE k \in bs : \A o \in bs : o = k \/ RowMajorLess(o, k)
                           IN  (l[1] + l[2]) % 2
    IN  IF Heavy # {} THEN FALSE
        ELSE IF whiteMinorPieces = 0 /\ blackMinorPieces = 0 THEN TRUE
        ELSE IF (whiteMinorPieces = 1 /\ blackMinorPieces = 0)
                \/ (whiteMinorPieces = 0 /\ blackMinorPieces = 1) THEN TRUE
        ELSE IF whiteMinorPieces = 1 /\ blackMinorPieces = 1
                /\ Cardinality(Bishops(TEAM_WHITE)) = 1 /\ Cardinality(Bishops(TEAM_BLACK)) = 1
                /\ SquareColor(Bishops(TEAM_WHITE)) = SquareColor(Bishops(TEAM_BLACK)) THEN TRUE
        ELSE FALSE

\* ResetsAndValidations: flip the turn, clear isvalid / primaryValid, rescan
\* (TurnAndRescan), CheckValidation, StalemateValidation, CheckmateValidation
\* for the side to move when it is checked (CheckmateOfTurn),
\* CheckInsufficientMaterial (InsufficientMaterialFlag).
TurnAndRescan(s) ==
    [s EXCEPT !.turn = Other(s.turn), !.isvalid = {},
              !.vulnerable = ScanEnemyMoves(s.board, Other(s.turn))]

CheckmateOfTurn(s3) ==
    IF s3.whitePlayer.Checked
    THEN (IF s3.turn = TEAM_WHITE THEN CheckmateValidation(s3) ELSE s3)
    ELSE IF s3.blackPlayer.Checked /\ s3.turn = TEAM_BLACK THEN CheckmateValidation(s3)
         ELSE s3

InsufficientMaterialFlag(s4) ==
    [s4 EXCEPT !.isInsufficientMaterial = CheckInsufficientMaterial(s4)]

ResetsAndValidations(s) ==
    InsufficientMaterialFlag(CheckmateOfTurn(StalemateValidation(CheckValidation(TurnAndRescan(s)))))


---------
(* FEN codec.  A text is a sequence of one-character strings; NUL stands   *)
(* for the terminator read at index size.                                  *)

NUL == "NUL"

LowerLetters == <<"a", "b", "c", "d", "e", "f", "g", "h", "i", "j", "k", "l", "m",
                  "n", "o", "p", "q", "r", "s", "t", "u", "v", "w", "x", "y", "z">>
UpperLetters == <<"A", "B", "C", "D", "E", "F", "G", "H", "I", "J", "K", "L", "M",
                  "N", "O", "P", "Q", "R", "S", "T", "U", "V", "W", "X", "Y", "Z">>
Digits == <<"0", "1", "2", "3", "4", "5", "6", "7", "8", "9">>

InSeq(ch, sq) == \E i \in 1..Len(sq) : sq[i] = ch
IndexOf(ch, sq) == CHOOSE i \in 1..Len(sq) : sq[i] = ch

isdigit(ch) == InSeq(ch, Digits)
islower(ch) == InSeq(ch, LowerLetters)
isupper(ch) == InSeq(ch, UpperLetters)
isalpha(ch) == islower(ch) \/ isupper(ch)
\* isblank: space and horizontal tab
isblank(ch) == ch \in {" ", "\t"}
\* isspace, as sscanf skips it: space, tab, line feed, vertical tab (the
\* character of code 11, written as itself), form feed and carriage return
isspace(ch) == ch \in {" ", "\t", "\n", "", "\f", "\r"}
tolower(ch) == IF isupper(ch) THEN LowerLetters[IndexOf(ch, UpperLetters)] ELSE ch
toupper(ch) == IF islower(ch) THEN UpperLetters[IndexOf(ch, LowerLetters)] ELSE ch
DigitVal(ch) == IndexOf(ch, Digits) - 1

\* ++ and -- on an int clock: the value wraps at the ends of the 32-bit range
Inc32(n) == IF n = 2147483647 THEN -2147483647 - 1 ELSE n + 1
Dec32(n) == IF n = -2147483647 - 1 THEN 2147483647 ELSE n - 1

\* FENstring[i], 0-based, with the terminator at index size
Ch(fen, i) == IF i < Len(fen) THEN fen[i + 1] ELSE NUL

\* printf("%d")
Pow10 == <<1, 10, 100, 1000, 10000, 100000, 1000000, 10000000, 100000000, 1000000000>>

\* the decimal digits of n, the first one not 0 unless n = 0
NatDigits(n, len) == [j \in 1..len |-> Digits[((n \div Pow10[len - j + 1]) % 10) + 1]]
NatText(n) ==
    NatDigits(n, CHOOSE k \in 1..Len(Pow10) :
                     /\ k = 1 \/ n >= Pow10[k]
                     /\ k = Len(Pow10) \/ n < Pow10[k + 1])
IntText(n) ==
    IF n >= 0 THEN NatText(n)
    ELSE IF n = -2147483647 - 1 THEN <<"-", "2", "1", "4", "7", "4", "8", "3", "6", "4", "8">>
    ELSE <<"-">> \o NatText(-n)

PieceLetter(type) ==
    CASE type = PIECE_BISHOP -> "b" [] type = PIECE_KING -> "k" [] type = PIECE_KNIGHT -> "n"
      [] type = PIECE_PAWN -> "p" [] type = PIECE_QUEEN -> "q" [] type = PIECE_ROOK -> "r"

\* one rank of the piece placement: a run of empty cells is flushed before a
\* piece and at the end of the rank
RECURSIVE RankText(_, _, _, _)
RankText(b, row, col, consecutiveEmptyCells) ==
    LET flush == IF consecutiveEmptyCells # 0 THEN <<Digits[consecutiveEmptyCells + 1]>> ELSE <<>>
    IN  IF col = BOARD_SIZE THEN flush
        ELSE IF b[row][col].type # PIECE_NONE
             THEN flush \o <<IF b[row][col].team = TEAM_BLACK
                             THEN PieceLetter(b[row][col].type)
                             ELSE toupper(PieceLetter(b[row][col].type))>>
                        \o RankText(b, row, col + 1, 0)
             ELSE RankText(b, row, col + 1, consecutiveEmptyCells + 1)

\* the eight ranks from the top, separated by slashes
PlacementText(b) ==
    RankText(b, 0, 0, 0) \o <<"/">> \o RankText(b, 1, 0, 0) \o <<"/">> \o
    RankText(b, 2, 0, 0) \o <<"/">> \o RankText(b, 3, 0, 0) \o <<"/">> \o
    RankText(b, 4, 0, 0) \o <<"/">> \o RankText(b, 5, 0, 0) \o <<"/">> \o
    RankText(b, 6, 0, 0) \o <<"/">> \o RankText(b, 7, 0, 0)

\* Black's letters are written before White's
CastlingTextBlackFirst(s) ==
    LET t == (IF s.blackKingSide THEN <<"k">> ELSE <<>>) \o (IF s.blackQueenSide THEN <<"q">> ELSE <<>>)
             \o (IF s.whiteKingSide THEN <<"K">> ELSE <<>>) \o (IF s.whiteQueenSide THEN <<"Q">> ELSE <<>>)
    IN  IF t = <<>> THEN <<"-">> ELSE t

CastlingText(s) ==
    LET t == (IF s.whiteKingSide THEN <<"K">> ELSE <<>>) \o (IF s.whiteQueenSide THEN <<"Q">> ELSE <<>>)
             \o (IF s.blackKingSide THEN <<"k">> ELSE <<>>) \o (IF s.blackQueenSide THEN <<"q">> ELSE <<>>)
    IN  IF t = <<>> THEN <<"-">> ELSE t

EnPassantText(s) ==
    IF s.enPassantCol # -1
    THEN <<LowerLetters[s.enPassantCol + 1], IF s.turn = TEAM_WHITE THEN "6" ELSE "3">>
    ELSE <<"-">>

\* the first four fields: placement, active colour, castling, en passant
FENPosition(s) ==
    PlacementText(s.board) \o <<" ", IF s.turn = TEAM_WHITE THEN "w" ELSE "b", " ">>
    \o CastlingText(s) \o <<" ">> \o EnPassantText(s)

\* snprintf(out + counter, size, "%d %d"): at most size - 1 characters of
\* the two clocks are stored, the text ends there
ClocksText(s, size) ==
    LET whole == IntText(s.halfMoveClock) \o <<" ">> \o IntText(s.fullMoveNumber)
    IN  IF Len(whole) > size - 1 THEN SubSeq(whole, 1, size - 1) ELSE whole

SaveFEN(s) ==
    FENPosition(s) \o <<" ">> \o ClocksText(s, (2 * MAX_HALF_FULL_MOVE_DIGITS) + 1)

\* CurrentGameStateHash: the digest of SaveFEN's text cut before its fourth
\* space.  The digest is kept as the text it is computed from.
CurrentGameStateHash(s) == FENPosition(s)

\* the history is left as it is
ClearDHAKeeps(DHA) == DHA

ClearDHA(DHA) == <<>>
PushDHA(DHA, hash) == Append(DHA, hash)
PopDHA(DHA) == IF Len(DHA) = 0 THEN DHA ELSE SubSeq(DHA, 1, Len(DHA) - 1)

\* IsRepeated3times: the held position counts once, two matches in the
\* history make three
IsRepeated3times(DHA, currentHash) ==
    IF Len(DHA) < 2 THEN FALSE
    ELSE Cardinality({i \in 1..Len(DHA) : DHA[i] = currentHash}) + 1 >= 3


-----------------------------------------------------------------------------
(* ReadFEN.  Each field commits what it parsed before the next field is    *)
(* examined, so a text rejected at a later field leaves the earlier fields *)
(* written (unless testInputStringOnly).                                   *)

LetterPiece(piece) ==
    CASE piece = "r" -> PIECE_ROOK [] piece = "n" -> PIECE_KNIGHT [] piece = "b" -> PIECE_BISHOP
      [] piece = "q" -> PIECE_QUEEN [] piece = "k" -> PIECE_KING [] piece = "p" -> PIECE_PAWN
      [] OTHER -> PIECE_NONE

\* 1. piece placement.  The loop state is the board, the index i, rank and
\* file; ok is cleared by the early return, stop is set by the break.
PlacementStep(st, fen, test) ==
    LET chr == Ch(fen, st.i)
    IN  IF chr = "/"
        THEN IF st.rank + 1 >= BOARD_SIZE
             THEN [st EXCEPT !.rank = st.rank + 1, !.file = 0, !.stop = TRUE]
             ELSE [st EXCEPT !.rank = st.rank + 1, !.file = 0, !.i = st.i + 1]
        ELSE IF isdigit(chr)
        THEN [st EXCEPT !.file = IF st.file + DigitVal(chr) > BOARD_SIZE THEN BOARD_SIZE
                                 ELSE st.file + DigitVal(chr),
                        !.i = st.i + 1]
        ELSE IF ~isalpha(chr) THEN [st EXCEPT !.ok = FALSE, !.stop = TRUE]
        ELSE IF ~OnBoard(st.rank, st.file) THEN [st EXCEPT !.file = st.file + 1, !.i = st.i + 1]
        ELSE [st EXCEPT !.b = IF test THEN st.b
                              ELSE LoadPiece(st.b, st.rank, st.file, LetterPiece(tolower(chr)),
                                             IF islower(chr) THEN TEAM_BLACK ELSE TEAM_WHITE),
                        !.file = st.file + 1, !.i = st.i + 1]

\* the for loop, run for at most n iterations; it ends earlier at the end of
\* the text, at a blank, at the break or at the early return
RECURSIVE PlacementLoop(_, _, _, _)
PlacementLoop(st, fen, test, n) ==
    IF n = 0 \/ st.stop \/ st.i >= Len(fen) \/ Ch(fen, st.i) = " " THEN st
    ELSE IF n = 1 THEN PlacementStep(st, fen, test)
    ELSE PlacementLoop(PlacementLoop(st, fen, test, n \div 2), fen, test, n - (n \div 2))

ReadPlacement(b, fen, test) ==
    PlacementLoop([b |-> b, i |-> 0, rank |-> 0, file |-> 0, ok |-> TRUE, stop |-> FALSE],
                  fen, test, Len(fen))

RECURSIVE SkipBlank(_, _)
SkipBlank(fen, i) == IF i < Len(fen) /\ isblank(Ch(fen, i)) THEN SkipBlank(fen, i + 1) ELSE i

ZeroRights(s) ==
    [s EXCEPT !.whiteKingSide = FALSE, !.whiteQueenSide = FALSE,
              !.blackKingSide = FALSE, !.blackQueenSide = FALSE]

\* the do-while over the castling letters; chr is already consumed
RECURSIVE ReadRights(_, _, _, _, _)
ReadRights(s, fen, i, chr, test) ==
    LET s1 == IF test THEN s
              ELSE CASE chr = "K" -> [s EXCEPT !.whiteKingSide = TRUE]
                     [] chr = "k" -> [s EXCEPT !.blackKingSide = TRUE]
                     [] chr = "Q" -> [s EXCEPT !.whiteQueenSide = TRUE]
                     [] chr = "q" -> [s EXCEPT !.blackQueenSide = TRUE]
                     [] OTHER -> s
    IN  IF i >= Len(fen) \/ isblank(Ch(fen, i)) THEN [s |-> s1, i |-> i]
        ELSE ReadRights(s1, fen, i + 1, Ch(fen, i), test)

charInSequence(chr) == chr = "-" \/ InSeq(tolower(chr), SubSeq(LowerLetters, 1, 8))

RECURSIVE SkipSpace(_, _)
SkipSpace(fen, i) == IF i < Len(fen) /\ isspace(Ch(fen, i)) THEN SkipSpace(fen, i + 1) ELSE i

\* LONG_MAX, the largest value the conversion of a digit run yields
LongMaxText == <<"9", "2", "2", "3", "3", "7", "2", "0", "3", "6",
                 "8", "5", "4", "7", "7", "5", "8", "0", "7">>

\* 10^p modulo 2^32 for p = 0 .. 31, its high and its low 16 bits; from
\* p = 32 on 10^p is a multiple of 2^32
Pow10Hi ==
    <<0, 0, 0, 0, 0, 1, 15, 152,
      1525, 15258, 21515, 18550, 54437, 20082, 4218, 42182,
      28609, 23946, 42852, 35304, 25360, 56992, 45632, 63104,
      41216, 18944, 58368, 59392, 4096, 40960, 16384, 32768>>
Pow10Lo ==
    <<1, 10, 100, 1000, 10000, 34464, 16960, 38528,
      57600, 51712, 58368, 59392, 4096, 40960, 16384, 32768,
      0, 0, 0, 0, 0, 0, 0, 0,
      0, 0, 0, 0, 0, 0, 0, 0>>

\* the index after the run of digits that starts at i
DigitsEnd(fen, i) ==
    CHOOSE e \in i..Len(fen) : ~isdigit(Ch(fen, e)) /\ \A j \in i..(e - 1) : isdigit(Ch(fen, j))

\* the sum, over the last n digits before e, of digit * w[place]
WeightedSum(fen, e, n, w) ==
    LET term(p) == DigitVal(Ch(fen, e - 1 - p)) * w[p + 1]
    IN  BagCardinality([p \in {q \in 0..(n - 1) : term(q) > 0} |-> term(p)])

\* the index of the first digit of the run i .. e - 1 that is not 0, e when
\* there is none
FirstNonZero(fen, i, e) ==
    CHOOSE f \in i..e : (f = e \/ Ch(fen, f) # "0") /\ \A j \in i..(f - 1) : Ch(fen, j) = "0"

\* the sig digits from first on are a number above LONG_MAX
AboveLongMax(fen, first, sig) ==
    \/ sig > Len(LongMaxText)
    \/ /\ sig = Len(LongMaxText)
       /\ \E j \in 1..sig :
              /\ DigitVal(Ch(fen, first + j - 1)) > DigitVal(LongMaxText[j])
              /\ \A m \in 1..(j - 1) : Ch(fen, first + m - 1) = LongMaxText[m]

\* the two weighted sums carried into 16-bit halves
LongLimbs(losum, hisum, sig, above) ==
    [hi |-> (hisum + (losum \div 65536)) % 65536, lo |-> losum % 65536,
     sig |-> sig, above |-> above]

DigitsRun(fen, e, n, first) ==
    [acc |-> LongLimbs(WeightedSum(fen, e, n, Pow10Lo), WeightedSum(fen, e, n, Pow10Hi),
                       e - first, AboveLongMax(fen, first, e - first)),
     i |-> e]

DigitsUpTo(fen, i, e) ==
    DigitsRun(fen, e, IF e - i > Len(Pow10Lo) THEN Len(Pow10Lo) ELSE e - i, FirstNonZero(fen, i, e))

\* the digit run is read into a long: hi and lo are the low 32 bits of its
\* value as two 16-bit halves, sig is the number of digits from the first
\* non-zero one, above tells that these digits are a number above LONG_MAX
ScanDigits(fen, i) == DigitsUpTo(fen, i, DigitsEnd(fen, i))

\* the long is stored in an int: its low 32 bits, read as two's complement.
\* A run above LONG_MAX gives LONG_MAX (low bits all ones), below LONG_MIN
\* gives LONG_MIN (low bits all zero).
StoredInt(acc, neg) ==
    LET hi == IF acc.above THEN (IF neg THEN 0 ELSE 65535)
              ELSE IF ~neg THEN acc.hi
              ELSE IF acc.lo = 0 THEN (65536 - acc.hi) % 65536 ELSE 65535 - acc.hi
        lo == IF acc.above THEN (IF neg THEN 0 ELSE 65535)
              ELSE IF ~neg THEN acc.lo
              ELSE (65536 - acc.lo) % 65536
    IN  IF hi < 32768 THEN hi * 65536 + lo ELSE (hi - 65536) * 65536 + lo

\* sscanf("%d"): white space skipped, optional sign, at least one digit
ScanInt(fen, i) ==
    LET j == SkipSpace(fen, i)
        neg == Ch(fen, j) = "-"
        k == IF Ch(fen, j) \in {"-", "+"} THEN j + 1 ELSE j
        d == ScanDigits(fen, k)
    IN  IF ~isdigit(Ch(fen, k)) THEN [ok |-> FALSE, val |-> 0, i |-> j]
        ELSE [ok |-> TRUE, val |-> StoredInt(d.acc, neg), i |-> d.i]

\* 5. the two clocks and the history reset
ReadClocks(s, fen, i, test) ==
    LET h == ScanInt(fen, i)
        f == ScanInt(fen, h.i)
        s1 == [s EXCEPT !.halfMoveClock = h.val, !.fullMoveNumber = f.val]
    IN  IF ~h.ok \/ ~f.ok THEN [ok |-> FALSE, s |-> s]
        ELSE IF test THEN [ok |-> TRUE, s |-> s]
        ELSE [ok |-> TRUE, s |-> [s1 EXCEPT !.DHA = PushDHA(ClearDHA(s1.DHA), CurrentGameStateHash(s1))]]

\* 4. en passant target
ReadEnPassant(s, fen, i0, test) ==
    LET i == SkipBlank(fen, i0)
        chr == Ch(fen, i)
        s1 == IF test THEN s
              ELSE IF chr = "-" THEN [s EXCEPT !.enPassantCol = -1]
              ELSE [s EXCEPT !.enPassantCol = IndexOf(tolower(chr), LowerLetters) - 1]
        num == Ch(fen, i + 1)
    IN  IF i >= Len(fen) THEN [ok |-> FALSE, s |-> s]
        ELSE IF ~charInSequence(chr) THEN [ok |-> FALSE, s |-> s]
        ELSE IF chr = "-" THEN ReadClocks(s1, fen, i + 1, test)
        ELSE IF i + 1 >= Len(fen) THEN [ok |-> FALSE, s |-> s1]
        ELSE IF ~isdigit(num) \/ DigitVal(num) < 1 \/ DigitVal(num) > BOARD_SIZE
             THEN [ok |-> FALSE, s |-> s1]
        ELSE ReadClocks(s1, fen, i + 2, test)

\* 3. castling rights
ReadCastling(s, fen, i0, test) ==
    LET i == SkipBlank(fen, i0)
        chr == Ch(fen, i)
        s1 == IF test THEN s ELSE ZeroRights(s)
        r == ReadRights(s1, fen, i + 1, chr, test)
    IN  IF i >= Len(fen) THEN [ok |-> FALSE, s |-> s]
        ELSE IF chr # "-" /\ tolower(chr) # "k" /\ tolower(chr) # "q" THEN [ok |-> FALSE, s |-> s]
        ELSE IF chr = "-" THEN ReadEnPassant(s1, fen, i + 1, test)
        ELSE ReadEnPassant(r.s, fen, r.i, test)

\* the active colour is written in test mode too
ReadActiveColorAlwaysWrites(s, fen, i0, test) ==
    LET i == SkipBlank(fen, i0)
        chr == tolower(Ch(fen, i))
        s1 == [s EXCEPT !.turn = IF chr = "w" THEN TEAM_WHITE ELSE TEAM_BLACK]
    IN  IF i >= Len(fen) THEN [ok |-> FALSE, s |-> s]
        ELSE IF chr # "w" /\ chr # "b" THEN [ok |-> FALSE, s |-> s]
        ELSE ReadCastling(s1, fen, i + 1, test)

\* 2. active colour
ReadActiveColor(s, fen, i0, test) ==
    LET i == SkipBlank(fen, i0)
        chr == tolower(Ch(fen, i))
        s1 == IF test THEN s ELSE [s EXCEPT !.turn = IF chr = "w" THEN TEAM_WHITE ELSE TEAM_BLACK]
    IN  IF i >= Len(fen) THEN [ok |-> FALSE, s |-> s]
        ELSE IF chr # "w" /\ chr # "b" THEN [ok |-> FALSE, s |-> s]
        ELSE ReadCastling(s1, fen, i + 1, test)

ReadFEN(s, fen, testInputStringOnly) ==
    LET p == ReadPlacement(s.board, fen, testInputStringOnly)
        s1 == [s EXCEPT !.board = p.b]
    IN  IF ~p.ok THEN [ok |-> FALSE, s |-> s1]
        ELSE ReadActiveColor(s1, fen, p.i, testInputStringOnly)


-----------------------------------------------------------------------------
(* Move records and the undo / redo stacks                                 *)

\* RecordMove: the snapshot is taken from the state as it is at the call
RecordMove(s, initialRow, initialCol, finalRow, finalCol) ==
    LET from == s.board[initialRow][initialCol]
        to == s.board[finalRow][finalCol]
        ep == from.type = PIECE_PAWN /\ initialCol # finalCol /\ to.type = PIECE_NONE
    IN  [initialRow |-> initialRow, initialCol |-> initialCol,
         finalRow |-> finalRow, finalCol |-> finalCol,
         pieceMovedType |-> from.type, pieceMovedTeam |-> from.team,
         pieceCapturedType |-> IF ep THEN PIECE_PAWN ELSE to.type,
         promotionType |-> PIECE_NONE,
         wasEnPassant |-> ep,
         previousEnPassantCol |-> s.enPassantCol,
         wasCastling |-> (from.type = PIECE_KING /\ Abs(finalCol - initialCol) = 2),
         whiteKingSide |-> s.whiteKingSide, whiteQueenSide |-> s.whiteQueenSide,
         blackKingSide |-> s.blackKingSide, blackQueenSide |-> s.blackQueenSide,
         halfMove |-> s.halfMoveClock % HalfMoveBits]

\* the zero-initialised static pendingMove
ZeroMove ==
    [initialRow |-> 0, initialCol |-> 0, finalRow |-> 0, finalCol |-> 0,
     pieceMovedType |-> PIECE_NONE, pieceMovedTeam |-> TEAM_WHITE,
     pieceCapturedType |-> PIECE_NONE, promotionType |-> PIECE_NONE,
     wasEnPassant |-> FALSE, previousEnPassantCol |-> 0, wasCastling |-> FALSE,
     whiteKingSide |-> FALSE, whiteQueenSide |-> FALSE,
     blackKingSide |-> FALSE, blackQueenSide |-> FALSE, halfMove |-> 0]

\* the record is stored twice
PushStackTwice(stack, move) == Append(Append(stack, move), move)

PushStack(stack, move) == Append(stack, move)
ClearStack(stack) == <<>>
\* an empty stack is reported as popped: TRUE with an all-zero move
PopStackNeverEmpty(stack) ==
    IF Len(stack) = 0 THEN [ok |-> TRUE, move |-> ZeroMove, stack |-> stack]
    ELSE [ok |-> TRUE, move |-> stack[Len(stack)], stack |-> SubSeq(stack, 1, Len(stack) - 1)]

\* PopStack: FALSE on an empty stack, else the top is handed out and removed
PopStack(stack) ==
    IF Len(stack) = 0 THEN [ok |-> FALSE, move |-> ZeroMove, stack |-> stack]
    ELSE [ok |-> TRUE, move |-> stack[Len(stack)], stack |-> SubSeq(stack, 1, Len(stack) - 1)]

-----------------------------------------------------------------------------
(* MovePiece                                                               *)

\* a capture on a rook's home corner clears that right
RookCaptureRights(s, finalRow, finalCol) ==
    LET to == s.board[finalRow][finalCol]
    IN  IF to.type # PIECE_ROOK THEN s
        ELSE IF to.team = TEAM_WHITE
        THEN [s EXCEPT !.whiteQueenSide = IF finalRow = WHITE_BACK_RANK /\ finalCol = ROOK_QS_COL THEN FALSE ELSE @,
                       !.whiteKingSide = IF finalRow = WHITE_BACK_RANK /\ finalCol = ROOK_KS_COL THEN FALSE ELSE @]
        ELSE [s EXCEPT !.blackQueenSide = IF finalRow = BLACK_BACK_RANK /\ finalCol = ROOK_QS_COL THEN FALSE ELSE @,
                       !.blackKingSide = IF finalRow = BLACK_BACK_RANK /\ finalCol = ROOK_KS_COL THEN FALSE ELSE @]

\* the counter is advanced whatever it holds
DeadPiecesUnguarded(s, finalRow, finalCol) ==
    LET to == s.board[finalRow][finalCol]
    IN  IF s.turn = TEAM_WHITE
        THEN IF to.type # PIECE_NONE /\ to.team = TEAM_BLACK
             THEN [s EXCEPT !.deadBlackCounter = @ + 1] ELSE s
        ELSE IF to.type # PIECE_NONE /\ to.team = TEAM_WHITE
             THEN [s EXCEPT !.deadWhiteCounter = @ + 1] ELSE s

\* dead-piece counters: a capture of an enemy piece on the destination square
DeadPieces(s, finalRow, finalCol) ==
    LET to == s.board[finalRow][finalCol]
    IN  IF s.turn = TEAM_WHITE
        THEN IF to.type # PIECE_NONE /\ to.team = TEAM_BLACK /\ s.deadBlackCounter < BOARD_SIZE * 2
             THEN [s EXCEPT !.deadBlackCounter = @ + 1] ELSE s
        ELSE IF to.type # PIECE_NONE /\ to.team = TEAM_WHITE /\ s.deadWhiteCounter < BOARD_SIZE * 2
             THEN [s EXCEPT !.deadWhiteCounter = @ + 1] ELSE s

\* the king is moved and the rook is left on its corner
CastleMoveKingOnly(s, currentMove, rank, kingCol, rookCol, cornerCol) ==
    LET b1 == LoadPiece(s.board, rank, kingCol, PIECE_KING, s.turn)
        b2 == SetEmptyCell(b1, rank, KING_START_COL)
        s1 == [s EXCEPT !.undoStack = PushStack(@, currentMove), !.redoStack = ClearStack(@),
                        !.board = b2]
    IN  ResetsAndValidations(
            IF s.turn = TEAM_WHITE
            THEN [s1 EXCEPT !.whiteKingSide = FALSE, !.whiteQueenSide = FALSE]
            ELSE [s1 EXCEPT !.blackKingSide = FALSE, !.blackQueenSide = FALSE])

\* the castling branch: both pieces are placed, the move is pushed, and the
\* position is settled; the position history is not touched
CastleMove(s, currentMove, rank, kingCol, rookCol, cornerCol) ==
    LET b1 == LoadPiece(s.board, rank, kingCol, PIECE_KING, s.turn)
        b2 == SetEmptyCell(b1, rank, KING_START_COL)
        b3 == LoadPiece(b2, rank, rookCol, PIECE_ROOK, s.turn)
        b4 == SetEmptyCell(b3, rank, cornerCol)
        s1 == [s EXCEPT !.undoStack = PushStack(@, currentMove), !.redoStack = ClearStack(@),
                        !.board = b4]
    IN  ResetsAndValidations(
            IF s.turn = TEAM_WHITE
            THEN [s1 EXCEPT !.whiteKingSide = FALSE, !.whiteQueenSide = FALSE]
            ELSE [s1 EXCEPT !.blackKingSide = FALSE, !.blackQueenSide = FALSE])

\* a king move sets both rights of the mover instead of clearing them
MoverRightsGranted(s, movingPieceType, initialRow, initialCol) ==
    IF movingPieceType = PIECE_KING
    THEN IF s.turn = TEAM_WHITE
         THEN [s EXCEPT !.whiteKingSide = TRUE, !.whiteQueenSide = TRUE]
         ELSE [s EXCEPT !.blackKingSide = TRUE, !.blackQueenSide = TRUE]
    ELSE s

\* only a king move costs rights; a rook leaving its corner keeps them
MoverRightsKingOnly(s, movingPieceType, initialRow, initialCol) ==
    IF movingPieceType = PIECE_KING
    THEN IF s.turn = TEAM_WHITE
         THEN [s EXCEPT !.whiteKingSide = FALSE, !.whiteQueenSide = FALSE]
         ELSE [s EXCEPT !.blackKingSide = FALSE, !.blackQueenSide = FALSE]
    ELSE s

\* rights lost by moving the king or a rook from its corner
MoverRights(s, movingPieceType, initialRow, initialCol) ==
    IF movingPieceType = PIECE_KING
    THEN IF s.turn = TEAM_WHITE
         THEN [s EXCEPT !.whiteKingSide = FALSE, !.whiteQueenSide = FALSE]
         ELSE [s EXCEPT !.blackKingSide = FALSE, !.blackQueenSide = FALSE]
    ELSE IF movingPieceType = PIECE_ROOK
    THEN IF s.turn = TEAM_WHITE
         THEN [s EXCEPT !.whiteQueenSide = IF initialRow = WHITE_BACK_RANK /\ initialCol = ROOK_QS_COL THEN FALSE ELSE @,
                        !.whiteKingSide = IF initialRow = WHITE_BACK_RANK /\ initialCol = ROOK_KS_COL THEN FALSE ELSE @]
         ELSE [s EXCEPT !.blackQueenSide = IF initialRow = BLACK_BACK_RANK /\ initialCol = ROOK_QS_COL THEN FALSE ELSE @,
                        !.blackKingSide = IF initialRow = BLACK_BACK_RANK /\ initialCol = ROOK_KS_COL THEN FALSE ELSE @]
    ELSE s

\* the commit at the end of an ordinary move: push, settle, repetition check
\* against the history (RepetitionCheck on the hash of the settled position),
\* then the new position joins the history
RepetitionCheck(s1, currentHash) ==
    [(IF s1.halfMoveClock > 0 /\ IsRepeated3times(s1.DHA, currentHash)
      THEN [s1 EXCEPT !.isRepeated3times = TRUE] ELSE s1)
     EXCEPT !.DHA = PushDHA(@, currentHash)]

HashAndRepetition(s1) == RepetitionCheck(s1, CurrentGameStateHash(s1))

CommitMove(s, currentMove) ==
    HashAndRepetition(ResetsAndValidations([s EXCEPT !.promotionType = PIECE_NONE,
                                                     !.undoStack = PushStack(@, currentMove),
                                                     !.redoStack = ClearStack(@)]))

\* everything after the castling branch.  enPassantCol was set to -1 just
\* before, so the block guarded by enPassantCol != -1 never runs.
OrdinaryMove(s, currentMove, initialRow, initialCol, finalRow, finalCol) ==
    LET from == s.board[initialRow][initialCol]
        s1 == MoverRights(s, from.type, initialRow, initialCol)
        pm2 == IF from.type = PIECE_PAWN /\ Abs(finalRow - initialRow) = 2
               THEN s1.PawnMovedTwo \cup {<<finalRow, finalCol>>} ELSE s1.PawnMovedTwo
        b1 == LoadPiece(s1.board, finalRow, finalCol, from.type, from.team)
        b2 == [b1 EXCEPT ![finalRow][finalCol].hasMoved = TRUE]
        b3 == SetEmptyCell(b2, initialRow, initialCol)
        b4 == IF currentMove.wasEnPassant THEN SetEmptyCell(b3, initialRow, finalCol) ELSE b3
        s2 == [s1 EXCEPT !.PawnMovedTwo = pm2, !.board = b4]
        isPromoting == b4[finalRow][finalCol].type = PIECE_PAWN
                       /\ ((b4[finalRow][finalCol].team = TEAM_WHITE /\ finalRow = 0)
                           \/ (b4[finalRow][finalCol].team = TEAM_BLACK /\ finalRow = BOARD_SIZE - 1))
    IN  IF isPromoting
        THEN [s2 EXCEPT !.isPromoting = TRUE, !.promotionRow = finalRow,
                        !.promotionCol = finalCol, !.pendingMove = currentMove]
        ELSE CommitMove(s2, currentMove)

\* the source square is not examined: an empty source and a move onto the
\* source square itself are carried out like any other move
MovePieceUnchecked(s, initialRow, initialCol, finalRow, finalCol) ==
    IF ~OnBoard(initialRow, initialCol) \/ ~OnBoard(finalRow, finalCol) THEN s
    ELSE
    LET from == s.board[initialRow][initialCol]
        to == s.board[finalRow][finalCol]
        s1 == [s EXCEPT !.fullMoveNumber = IF s.turn = TEAM_BLACK THEN Inc32(@) ELSE @]
        s2 == IF from.type = PIECE_PAWN \/ to.type # PIECE_NONE
              THEN [s1 EXCEPT !.halfMoveClock = 0, !.DHA = ClearDHA(@)]
              ELSE [s1 EXCEPT !.halfMoveClock = Inc32(@)]
        s3 == RookCaptureRights(s2, finalRow, finalCol)
        currentMove == RecordMove(s3, initialRow, initialCol, finalRow, finalCol)
        s4 == DeadPieces([s3 EXCEPT !.enPassantCol = -1], finalRow, finalCol)
        s5 == [s4 EXCEPT !.JustMoved = {<<finalRow, finalCol>>}]
    IN  OrdinaryMove(s5, currentMove, initialRow, initialCol, finalRow, finalCol)

MovePiece(s, initialRow, initialCol, finalRow, finalCol) ==
    IF ~OnBoard(initialRow, initialCol) \/ ~OnBoard(finalRow, finalCol) THEN s
    ELSE IF s.board[initialRow][initialCol].type = PIECE_NONE THEN s
    ELSE IF initialRow = finalRow /\ initialCol = finalCol THEN s
    ELSE
    LET from == s.board[initialRow][initialCol]
        to == s.board[finalRow][finalCol]
        s1 == [s EXCEPT !.fullMoveNumber = IF s.turn = TEAM_BLACK THEN Inc32(@) ELSE @]
        s2 == IF from.type = PIECE_PAWN \/ to.type # PIECE_NONE
              THEN [s1 EXCEPT !.halfMoveClock = 0, !.DHA = ClearDHA(@)]
              ELSE [s1 EXCEPT !.halfMoveClock = Inc32(@)]
        s3 == RookCaptureRights(s2, finalRow, finalCol)
        currentMove == RecordMove(s3, initialRow, initialCol, finalRow, finalCol)
        s4 == DeadPieces([s3 EXCEPT !.enPassantCol = -1], finalRow, finalCol)
        s5 == [s4 EXCEPT !.JustMoved = {<<finalRow, finalCol>>}]
        rank == IF s.turn = TEAM_WHITE THEN WHITE_BACK_RANK ELSE BLACK_BACK_RANK
    IN  IF from.type = PIECE_KING /\ Abs(finalCol - initialCol) = 2
           /\ finalRow = rank /\ finalCol = CASTLE_KS_KING_COL
        THEN CastleMove(s5, currentMove, rank, CASTLE_KS_KING_COL, CASTLE_KS_ROOK_COL, ROOK_KS_COL)
        ELSE IF from.type = PIECE_KING /\ Abs(finalCol - initialCol) = 2
                /\ finalRow = rank /\ finalCol = CASTLE_QS_KING_COL
        THEN CastleMove(s5, currentMove, rank, CASTLE_QS_KING_COL, CASTLE_QS_ROOK_COL, ROOK_QS_COL)
        ELSE OrdinaryMove(s5, currentMove, initialRow, initialCol, finalRow, finalCol)

\* PromotePawn: the piece is placed for the team found on the square, the
\* pending move is pushed with its promotion type, and the position is
\* settled; the position history is not touched
PromotePawn(s, selectedType) ==
    IF s.promotionRow = -1 \/ s.promotionCol = -1 THEN s
    ELSE
    LET team == s.board[s.promotionRow][s.promotionCol].team
        pending == [s.pendingMove EXCEPT !.promotionType = selectedType]
    IN  ResetsAndValidations(
            [s EXCEPT !.board = LoadPiece(@, s.promotionRow, s.promotionCol, selectedType, team),
                      !.isPromoting = FALSE, !.promotionRow = -1, !.promotionCol = -1,
                      !.promotionType = selectedType, !.pendingMove = pending,
                      !.undoStack = PushStack(@, pending), !.redoStack = ClearStack(@)])


-----------------------------------------------------------------------------
(* UndoMove / RedoMove                                                     *)

\* the rook goes back to its corner, chosen by the king's landing square
UndoCastlingRook(b, move) ==
    IF ~move.wasCastling THEN b
    ELSE IF move.finalRow = WHITE_BACK_RANK /\ move.finalCol = CASTLE_KS_KING_COL
    THEN SetEmptyCell(LoadPiece(b, WHITE_BACK_RANK, ROOK_KS_COL, PIECE_ROOK, TEAM_WHITE),
                      WHITE_BACK_RANK, CASTLE_KS_ROOK_COL)
    ELSE IF move.finalRow = WHITE_BACK_RANK /\ move.finalCol = CASTLE_QS_KING_COL
    THEN SetEmptyCell(LoadPiece(b, WHITE_BACK_RANK, ROOK_QS_COL, PIECE_ROOK, TEAM_WHITE),
                      WHITE_BACK_RANK, CASTLE_QS_ROOK_COL)
    ELSE IF move.finalRow = BLACK_BACK_RANK /\ move.finalCol = CASTLE_KS_KING_COL
    THEN SetEmptyCell(LoadPiece(b, BLACK_BACK_RANK, ROOK_KS_COL, PIECE_ROOK, TEAM_BLACK),
                      BLACK_BACK_RANK, CASTLE_KS_ROOK_COL)
    ELSE IF move.finalRow = BLACK_BACK_RANK /\ move.finalCol = CASTLE_QS_KING_COL
    THEN SetEmptyCell(LoadPiece(b, BLACK_BACK_RANK, ROOK_QS_COL, PIECE_ROOK, TEAM_BLACK),
                      BLACK_BACK_RANK, CASTLE_QS_ROOK_COL)
    ELSE b

UndoMove(s) ==
    LET pop == PopStack(s.undoStack)
        move == pop.move
        capturedTeam == IF move.pieceMovedTeam = TEAM_WHITE THEN TEAM_BLACK ELSE TEAM_WHITE
        b1 == LoadPiece(s.board, move.initialRow, move.initialCol, move.pieceMovedType, move.pieceMovedTeam)
        b2 == SetEmptyCell(b1, move.finalRow, move.finalCol)
        b3 == IF move.pieceCapturedType = PIECE_NONE THEN b2
              ELSE IF move.wasEnPassant
              THEN LoadPiece(b2, move.initialRow, move.finalCol, move.pieceCapturedType, capturedTeam)
              ELSE LoadPiece(b2, move.finalRow, move.finalCol, move.pieceCapturedType, capturedTeam)
        b4 == UndoCastlingRook(b3, move)
        captured == move.pieceCapturedType # PIECE_NONE
        row == IF move.pieceMovedTeam = TEAM_WHITE THEN 3 ELSE 4
        mark == IF move.previousEnPassantCol # -1 /\ OnBoard(row, move.previousEnPassantCol)
                THEN {<<row, move.previousEnPassantCol>>} ELSE {}
    IN  IF ~pop.ok THEN s
        ELSE ResetsAndValidations(
            [s EXCEPT !.undoStack = pop.stack,
                      !.halfMoveClock = move.halfMove,
                      !.fullMoveNumber = IF s.turn = TEAM_BLACK THEN Dec32(@) ELSE @,
                      !.enPassantCol = move.previousEnPassantCol,
                      !.whiteKingSide = move.whiteKingSide, !.whiteQueenSide = move.whiteQueenSide,
                      !.blackKingSide = move.blackKingSide, !.blackQueenSide = move.blackQueenSide,
                      !.isStalemate = FALSE, !.isRepeated3times = FALSE,
                      !.isInsufficientMaterial = FALSE, !.isCheckmate = FALSE,
                      !.whitePlayer.Checkmated = FALSE, !.blackPlayer.Checkmated = FALSE,
                      !.board = b4,
                      !.deadWhiteCounter = IF captured /\ capturedTeam = TEAM_WHITE /\ @ > 0 THEN @ - 1 ELSE @,
                      !.deadBlackCounter = IF captured /\ capturedTeam = TEAM_BLACK /\ @ > 0 THEN @ - 1 ELSE @,
                      !.DHA = PopDHA(@),
                      !.redoStack = PushStack(@, move),
                      !.JustMoved = @ \cup mark,
                      !.PawnMovedTwo = @ \cup mark])

\* the rook lands beside the king, chosen by the mover's team and the
\* king's landing file
RedoCastlingRook(b, move) ==
    LET rank == IF move.pieceMovedTeam = TEAM_WHITE THEN WHITE_BACK_RANK ELSE BLACK_BACK_RANK
    IN  IF ~move.wasCastling THEN b
        ELSE IF move.finalCol = CASTLE_KS_KING_COL
        THEN SetEmptyCell(LoadPiece(b, rank, CASTLE_KS_ROOK_COL, PIECE_ROOK, move.pieceMovedTeam),
                          rank, ROOK_KS_COL)
        ELSE SetEmptyCell(LoadPiece(b, rank, CASTLE_QS_ROOK_COL, PIECE_ROOK, move.pieceMovedTeam),
                          rank, ROOK_QS_COL)

RedoRights(s, move) ==
    LET white == move.pieceMovedTeam = TEAM_WHITE
        king == move.pieceMovedType = PIECE_KING
        rookFrom(rk, col) == move.pieceMovedType = PIECE_ROOK /\ move.initialRow = rk /\ move.initialCol = col
        rookHit(rk, col) == move.pieceCapturedType = PIECE_ROOK /\ move.finalRow = rk /\ move.finalCol = col
    IN  [s EXCEPT
          !.whiteKingSide = IF (white /\ (king \/ rookFrom(WHITE_BACK_RANK, ROOK_KS_COL)))
                               \/ (~white /\ rookHit(WHITE_BACK_RANK, ROOK_KS_COL)) THEN FALSE ELSE @,
          !.whiteQueenSide = IF (white /\ (king \/ rookFrom(WHITE_BACK_RANK, ROOK_QS_COL)))
                                \/ (~white /\ rookHit(WHITE_BACK_RANK, ROOK_QS_COL)) THEN FALSE ELSE @,
          !.blackKingSide = IF (~white /\ (king \/ rookFrom(BLACK_BACK_RANK, ROOK_KS_COL)))
                               \/ (white /\ rookHit(BLACK_BACK_RANK, ROOK_KS_COL)) THEN FALSE ELSE @,
          !.blackQueenSide = IF (~white /\ (king \/ rookFrom(BLACK_BACK_RANK, ROOK_QS_COL)))
                                \/ (white /\ rookHit(BLACK_BACK_RANK, ROOK_QS_COL)) THEN FALSE ELSE @]

RedoMove(s) ==
    LET pop == PopStack(s.redoStack)
        move == pop.move
        reset == move.pieceMovedType = PIECE_PAWN \/ move.pieceCapturedType # PIECE_NONE
        typeToPlace == IF move.promotionType # PIECE_NONE THEN move.promotionType ELSE move.pieceMovedType
        b1 == LoadPiece(s.board, move.finalRow, move.finalCol, typeToPlace, move.pieceMovedTeam)
        b2 == [b1 EXCEPT ![move.finalRow][move.finalCol].hasMoved = TRUE]
        b3 == SetEmptyCell(b2, move.initialRow, move.initialCol)
        b4 == IF move.wasEnPassant THEN SetEmptyCell(b3, move.initialRow, move.finalCol) ELSE b3
        b5 == RedoCastlingRook(b4, move)
        twoStep == move.pieceMovedType = PIECE_PAWN /\ Abs(move.finalRow - move.initialRow) = 2
        captured == move.pieceCapturedType # PIECE_NONE
        s1 == RedoRights(
                [s EXCEPT !.redoStack = pop.stack,
                          !.undoStack = PushStack(@, move),
                          !.fullMoveNumber = IF move.pieceMovedTeam = TEAM_BLACK THEN Inc32(@) ELSE @,
                          !.halfMoveClock = IF reset THEN 0 ELSE Inc32(@),
                          !.DHA = IF reset THEN ClearDHA(@) ELSE @,
                          !.board = b5,
                          !.enPassantCol = IF twoStep THEN move.finalCol ELSE -1,
                          !.PawnMovedTwo = IF twoStep THEN @ \cup {<<move.finalRow, move.finalCol>>} ELSE @,
                          !.deadBlackCounter = IF captured /\ move.pieceMovedTeam = TEAM_WHITE
                                                  /\ @ < BOARD_SIZE * 2 THEN @ + 1 ELSE @,
                          !.deadWhiteCounter = IF captured /\ move.pieceMovedTeam # TEAM_WHITE
                                                  /\ @ < BOARD_SIZE * 2 THEN @ + 1 ELSE @],
                move)
    IN  IF ~pop.ok THEN s
        ELSE HashAndRepetition(ResetsAndValidations(s1))

-----------------------------------------------------------------------------
(* Loading a position                                                      *)

\* UnloadBoard: every cell is set empty
UnloadBoard(s) == [s EXCEPT !.board = EmptyBoard]

\* LoadGameFromFEN: flags, promotion state, players, stacks, counters and
\* JustMoved are reset, the board is emptied, the text is read, the turn is
\* flipped so that ResetsAndValidations flips it back, and the position is
\* settled.  PawnMovedTwo is left as it is.
LoadGameFromFEN(s, fen) ==
    LET s1 == [s EXCEPT !.isCheckmate = FALSE, !.isStalemate = FALSE,
                        !.isRepeated3times = FALSE, !.isInsufficientMaterial = FALSE,
                        !.isPromoting = FALSE, !.promotionRow = -1, !.promotionCol = -1,
                        !.promotionType = PIECE_NONE,
                        !.whitePlayer.Checked = FALSE, !.whitePlayer.Checkmated = FALSE,
                        !.blackPlayer.Checked = FALSE, !.blackPlayer.Checkmated = FALSE,
                        !.undoStack = ClearStack(@), !.redoStack = ClearStack(@),
                        !.deadWhiteCounter = 0, !.deadBlackCounter = 0,
                        !.JustMoved = {}]
        s2 == ReadFEN(UnloadBoard(s1), fen, FALSE).s
    IN  ResetsAndValidations([s2 EXCEPT !.turn = Other(@)])


-----------------------------------------------------------------------------
(* The program: construction, the positions that are loaded, inputs        *)

STARTING_FEN ==
    <<"r", "n", "b", "q", "k", "b", "n", "r", "/", "p", "p", "p", "p", "p", "p", "p", "p", "/", "8", "/", "8", "/", "8", "/", "8", "/", "P", "P", "P", "P", "P", "P", "P", "P", "/", "R", "N", "B", "Q", "K", "B", "N", "R", " ", "w", " ", "K", "Q", "k", "q", " ", "-", " ", "0", " ", "1">>

\* GameState after static zero-initialisation and the assignments at the top
\* of main
ZeroState ==
    [board |-> EmptyBoard, turn |-> TEAM_WHITE,
     whitePlayer |-> [Checked |-> FALSE, Checkmated |-> FALSE, Stalemate |-> FALSE],
     blackPlayer |-> [Checked |-> FALSE, Checkmated |-> FALSE, Stalemate |-> FALSE],
     whiteKingSide |-> FALSE, whiteQueenSide |-> FALSE,
     blackKingSide |-> FALSE, blackQueenSide |-> FALSE,
     enPassantCol |-> 0, halfMoveClock |-> 0, fullMoveNumber |-> 0,
     isCheckmate |-> FALSE, isStalemate |-> FALSE, isRepeated3times |-> FALSE,
     isInsufficientMaterial |-> FALSE,
     isPromoting |-> FALSE, promotionType |-> PIECE_NONE, promotionRow |-> -1, promotionCol |-> -1,
     DHA |-> <<>>, undoStack |-> <<>>, redoStack |-> <<>>,
     deadWhiteCounter |-> 0, deadBlackCounter |-> 0,
     isvalid |-> {}, vulnerable |-> {}, JustMoved |-> {}, PawnMovedTwo |-> {},
     pendingMove |-> ZeroMove]

\* main: the standard position is read straight into the fresh state
InitialState == ReadFEN(ZeroState, STARTING_FEN, FALSE).s

\* bounds
MaxPly == 4
MaxRepPly == 9
MaxUndo == 2
MaxLoads == 1
MaxReloadPly == 2

\* Positions pasted into the FEN popup, the squares the player clicks in each,
\* and the number of plies played.  Position 0 is the position main starts in;
\* pasting it restarts the game.
Scenarios ==
    <<\* standard start: fool's mate squares, the g1 knight, and the a1 rook,
       \* which has no square to go to
       \* rnbqkbnr/pppppppp/8/8/8/8/PPPPPPPP/RNBQKBNR w KQkq - 0 1  clicks: f2 f3 g2 g4 e7 e5 d8 h4 g1 a1
       [fen |-> <<"r", "n", "b", "q", "k", "b", "n", "r", "/", "p", "p", "p", "p", "p", "p", "p", "p", "/", "8", "/", "8", "/", "8", "/", "8", "/", "P", "P", "P", "P", "P", "P", "P", "P", "/", "R", "N", "B", "Q", "K", "B", "N", "R", " ", "w", " ", "K", "Q", "k", "q", " ", "-", " ", "0", " ", "1">>,
        clicks |-> {<<6, 5>>, <<5, 5>>, <<6, 6>>, <<4, 6>>, <<1, 4>>, <<3, 4>>, <<0, 3>>, <<4, 7>>, <<7, 6>>, <<7, 0>>},
        depth |-> MaxPly],
       \* en passant along the white king's rank
       \* 8/3p4/8/K3P2r/8/8/8/7k b - - 0 1  clicks: d7 d5 e5 d6 e6 h5 h6
       [fen |-> <<"8", "/", "3", "p", "4", "/", "8", "/", "K", "3", "P", "2", "r", "/", "8", "/", "8", "/", "8", "/", "7", "k", " ", "b", " ", "-", " ", "-", " ", "0", " ", "1">>,
        clicks |-> {<<1, 3>>, <<3, 3>>, <<3, 4>>, <<2, 3>>, <<2, 4>>, <<3, 7>>, <<2, 7>>},
        depth |-> MaxPly],
       \* en passant as the only move of a cornered side
       \* 7k/3p4/4p3/4P3/8/6q1/r7/7K b - - 0 1  clicks: d7 d5 e5 d6 a2 a1
       [fen |-> <<"7", "k", "/", "3", "p", "4", "/", "4", "p", "3", "/", "4", "P", "3", "/", "8", "/", "6", "q", "1", "/", "r", "7", "/", "7", "K", " ", "b", " ", "-", " ", "-", " ", "0", " ", "1">>,
        clicks |-> {<<1, 3>>, <<3, 3>>, <<3, 4>>, <<2, 3>>, <<6, 0>>, <<7, 0>>},
        depth |-> MaxPly],
       \* king-side castling, then the kings shuffle
       \* 4k3/8/8/8/8/8/8/4K2R w K - 0 1  clicks: e1 g1 h1 e8 d8
       [fen |-> <<"4", "k", "3", "/", "8", "/", "8", "/", "8", "/", "8", "/", "8", "/", "8", "/", "4", "K", "2", "R", " ", "w", " ", "K", " ", "-", " ", "0", " ", "1">>,
        clicks |-> {<<7, 4>>, <<7, 6>>, <<7, 7>>, <<0, 4>>, <<0, 3>>},
        depth |-> MaxRepPly],
       \* promotion by advance or by capture
       \* 1r2k3/P7/8/8/8/8/8/4K3 w - - 0 1  clicks: a7 a8 b8 e8 d7
       [fen |-> <<"1", "r", "2", "k", "3", "/", "P", "7", "/", "8", "/", "8", "/", "8", "/", "8", "/", "8", "/", "4", "K", "3", " ", "w", " ", "-", " ", "-", " ", "0", " ", "1">>,
        clicks |-> {<<1, 0>>, <<0, 0>>, <<0, 1>>, <<0, 4>>, <<1, 3>>},
        depth |-> MaxPly],
       \* a pawn on its third rank that can only block from the fifth
       \* 4b1rk/8/8/8/8/3P4/7P/7K b - - 0 1  clicks: e8 c6 d3 d4 d5
       [fen |-> <<"4", "b", "1", "r", "k", "/", "8", "/", "8", "/", "8", "/", "8", "/", "3", "P", "4", "/", "7", "P", "/", "7", "K", " ", "b", " ", "-", " ", "-", " ", "0", " ", "1">>,
        clicks |-> {<<0, 4>>, <<2, 2>>, <<5, 3>>, <<4, 3>>, <<3, 3>>},
        depth |-> MaxPly],
       \* bishops on squares of the same colour
       \* 4k3/8/8/8/8/8/3b4/2B1K3 w - - 0 1  clicks: c1 d2 e1 e8 e7
       [fen |-> <<"4", "k", "3", "/", "8", "/", "8", "/", "8", "/", "8", "/", "8", "/", "3", "b", "4", "/", "2", "B", "1", "K", "3", " ", "w", " ", "-", " ", "-", " ", "0", " ", "1">>,
        clicks |-> {<<7, 2>>, <<6, 3>>, <<7, 4>>, <<0, 4>>, <<1, 4>>},
        depth |-> MaxPly],
       \* bishops on squares of different colours
       \* 4k3/8/8/8/8/8/3b4/3BK3 w - - 0 1  clicks: d1 d2 e1 e8 e7
       [fen |-> <<"4", "k", "3", "/", "8", "/", "8", "/", "8", "/", "8", "/", "8", "/", "3", "b", "4", "/", "3", "B", "K", "3", " ", "w", " ", "-", " ", "-", " ", "0", " ", "1">>,
        clicks |-> {<<7, 3>>, <<6, 3>>, <<7, 4>>, <<0, 4>>, <<1, 4>>},
        depth |-> MaxPly],
       \* two minor pieces against one
       \* 4k3/8/8/8/8/8/3n4/2NBK3 w - - 0 1  clicks: c1 d1 d2 e1 e8 e7 b3
       [fen |-> <<"4", "k", "3", "/", "8", "/", "8", "/", "8", "/", "8", "/", "8", "/", "3", "n", "4", "/", "2", "N", "B", "K", "3", " ", "w", " ", "-", " ", "-", " ", "0", " ", "1">>,
        clicks |-> {<<7, 2>>, <<7, 3>>, <<6, 3>>, <<7, 4>>, <<0, 4>>, <<1, 4>>, <<5, 1>>},
        depth |-> MaxPly],
       \* a text that names an en-passant target
       \* 4k3/8/8/3pP3/8/8/8/4K3 w - d6 0 1  clicks: e5 d6 e6 e8 d5 d4
       [fen |-> <<"4", "k", "3", "/", "8", "/", "8", "/", "3", "p", "P", "3", "/", "8", "/", "8", "/", "8", "/", "4", "K", "3", " ", "w", " ", "-", " ", "d", "6", " ", "0", " ", "1">>,
        clicks |-> {<<3, 4>>, <<2, 3>>, <<2, 4>>, <<0, 4>>, <<3, 3>>, <<4, 3>>},
        depth |-> MaxPly],
       \* castling across a square a pawn attacks
       \* 4k2r/6P1/8/8/8/8/8/4K3 b k - 0 1  clicks: e8 g8 e1 e2
       [fen |-> <<"4", "k", "2", "r", "/", "6", "P", "1", "/", "8", "/", "8", "/", "8", "/", "8", "/", "8", "/", "4", "K", "3", " ", "b", " ", "k", " ", "-", " ", "0", " ", "1">>,
        clicks |-> {<<0, 4>>, <<0, 6>>, <<7, 4>>, <<6, 4>>},
        depth |-> MaxPly],
       \* a knight recaptures on the square a pawn advanced two squares to
       \* 4k3/3p4/1n6/4P3/8/2N5/8/4K3 b - - 0 1  clicks: d7 d5 c3 b6 e5 d6
       [fen |-> <<"4", "k", "3", "/", "3", "p", "4", "/", "1", "n", "6", "/", "4", "P", "3", "/", "8", "/", "2", "N", "5", "/", "8", "/", "4", "K", "3", " ", "b", " ", "-", " ", "-", " ", "0", " ", "1">>,
        clicks |-> {<<1, 3>>, <<3, 3>>, <<5, 2>>, <<2, 1>>, <<3, 4>>, <<2, 3>>},
        depth |-> MaxPly],
       \* the game 1.e4 a5 2.e5 Ra6 3.Ke2 Rb6 4.Kf3 Rb5 5.Kg4 b6 6.Kg5
       \* 1nbqkbnr/2pppppp/1p6/pr2P1K1/8/8/PPPP1PPP/RNBQ1BNR b k - 1 6  clicks: d7 d5 e5 d6 b5 g5
       [fen |-> <<"1", "n", "b", "q", "k", "b", "n", "r", "/", "2", "p", "p", "p", "p", "p", "p", "/", "1", "p", "6", "/", "p", "r", "2", "P", "1", "K", "1", "/", "8", "/", "8", "/", "P", "P", "P", "P", "1", "P", "P", "P", "/", "R", "N", "B", "Q", "1", "B", "N", "R", " ", "b", " ", "k", " ", "-", " ", "1", " ", "6">>,
        clicks |-> {<<1, 3>>, <<3, 3>>, <<3, 4>>, <<2, 3>>, <<3, 1>>, <<3, 6>>},
        depth |-> MaxPly],
       \* standard start again: the e-pawn advances twice, the d-pawn answers
       \* rnbqkbnr/pppppppp/8/8/8/8/PPPPPPPP/RNBQKBNR w KQkq - 0 1  clicks: e2 e4 e5 d7 d5
       [fen |-> STARTING_FEN,
        clicks |-> {<<6, 4>>, <<4, 4>>, <<3, 4>>, <<1, 3>>, <<3, 3>>},
        depth |-> MaxPly],
       \* rooks facing each other on their home corners
       \* r3k3/8/8/8/8/8/8/R3K3 w Qq - 0 1  clicks: a1 a8 e8 d8 e1
       [fen |-> <<"r", "3", "k", "3", "/", "8", "/", "8", "/", "8", "/", "8", "/", "8", "/", "8", "/", "R", "3", "K", "3", " ", "w", " ", "Q", "q", " ", "-", " ", "0", " ", "1">>,
        clicks |-> {<<7, 0>>, <<0, 0>>, <<0, 4>>, <<0, 3>>, <<7, 4>>},
        depth |-> MaxPly],
       \* standard start once more: the a-pawn takes its way to the a8 corner
       \* rnbqkbnr/pppppppp/8/8/8/8/PPPPPPPP/RNBQKBNR w KQkq - 0 1  clicks: a2 a4 b7 b5 c7 c6 c8 h7 h6 a8
       [fen |-> STARTING_FEN,
        clicks |-> {<<6, 0>>, <<4, 0>>, <<1, 1>>, <<3, 1>>, <<1, 2>>, <<2, 2>>, <<0, 2>>, <<1, 7>>, <<2, 7>>, <<0, 0>>},
        depth |-> MaxRepPly],
       \* a file that ends after the en-passant field: the popup refuses this
       \* text, the file dialog loads it
       \* 4k3/8/8/8/8/8/8/4K2R w K -  clicks: e1 g1 h1 e8 d8
       [fen |-> <<"4", "k", "3", "/", "8", "/", "8", "/", "8", "/", "8", "/", "8", "/", "8", "/", "4", "K", "2", "R", " ", "w", " ", "K", " ", "-">>,
        clicks |-> {<<7, 4>>, <<7, 6>>, <<7, 7>>, <<0, 4>>, <<0, 3>>},
        depth |-> MaxPly],
       \* clocks of ten digits each
       \* 4k3/8/8/8/8/8/4P3/4K3 w - - 1000000000 2000000000  clicks: e2 e4 e8 d8
       [fen |-> <<"4", "k", "3", "/", "8", "/", "8", "/", "8", "/", "8", "/", "8", "/", "4", "P", "3", "/", "4", "K", "3", " ", "w", " ", "-", " ", "-", " ", "1", "0", "0", "0", "0", "0", "0", "0", "0", "0", " ", "2", "0", "0", "0", "0", "0", "0", "0", "0", "0">>,
        clicks |-> {<<6, 4>>, <<4, 4>>, <<0, 4>>, <<0, 3>>},
        depth |-> MaxPly],
       \* a rook leaves the corner a pawn is about to promote on
       \* r3k3/P7/8/8/8/8/8/4K3 b - - 0 1  clicks: a8 b8 a7
       [fen |-> <<"r", "3", "k", "3", "/", "P", "7", "/", "8", "/", "8", "/", "8", "/", "8", "/", "8", "/", "4", "K", "3", " ", "b", " ", "-", " ", "-", " ", "0", " ", "1">>,
        clicks |-> {<<0, 0>>, <<0, 1>>, <<1, 0>>},
        depth |-> MaxPly]>>

ScenarioIds == 0..(Len(Scenarios) - 1)
\* the position pasted into the popup over a game in progress (the castling
\* position), and the file chosen in the file dialog (the one without clocks)
PopupIds == {3}
FileIds == {16}
\* the games a position is loaded over: the first two from the standard start
ReloadFrom == {0, 13}
Clicks == Scenarios[game + 1].clicks
Depth == Scenarios[game + 1].depth

-----------------------------------------------------------------------------
(* History variables.  last names the latest operation, prev holds what    *)
(* the latest MovePiece call started from, its squares and the piece       *)
(* chosen in the promotion menu, seen lists the positions since the load,  *)
(* freed holds the containers main has released.                           *)

NoSquare == <<-1, -1>>

Placement(b) == [r \in Idx |-> [c \in Idx |-> <<b[r][c].type, b[r][c].team>>]]

Rights(s) == <<s.whiteKingSide, s.whiteQueenSide, s.blackKingSide, s.blackQueenSide>>

\* what undo is said to restore
Core(s) ==
    [placement |-> Placement(s.board), rights |-> Rights(s),
     halfMoveClock |-> s.halfMoveClock, fullMoveNumber |-> s.fullMoveNumber,
     enPassantCol |-> s.enPassantCol]

\* the pawn that has just advanced two squares, if the move is such an advance
DoubleStep(s, r1, c1, r2, c2) ==
    IF s.board[r1][c1].type = PIECE_PAWN /\ Abs(r2 - r1) = 2 THEN <<r2, c2>> ELSE NoSquare

\* a position as the rules of repetition identify it: placement, side to
\* move, castling rights, and whether a pawn of the side to move stands
\* beside the pawn that has just advanced two squares
PositionKey(s, double) ==
    <<Placement(s.board), s.turn, Rights(s),
      double # NoSquare /\ \E dc \in {-1, 1} :
          /\ OnBoard(double[1], double[2] + dc)
          /\ s.board[double[1]][double[2] + dc].type = PIECE_PAWN
          /\ s.board[double[1]][double[2] + dc].team = s.turn>>

NoPrev ==
    [core |-> Core(InitialState), mover |-> TEAM_WHITE, double |-> NoSquare,
     from |-> NoSquare, to |-> NoSquare, choice |-> PIECE_NONE]

Init ==
    /\ state = InitialState
    /\ CellX = -1
    /\ CellY = -1
    /\ game = 0
    /\ steps = 0
    /\ undos = 0
    /\ loads = 0
    /\ freed = {}
    /\ last = "init"
    /\ prev = NoPrev
    /\ seen = <<PositionKey(InitialState, NoSquare)>>

\* the containers main creates and, at the end, releases
Containers == {"DHA", "undoStack", "redoStack"}

\* the main loop is running: the window has not been closed
Running == freed = {}

\* RestartGame
RestartGame(s) == LoadGameFromFEN(s, STARTING_FEN)

\* HandleGui: while the game is over only the game-over window is handled
isGameOver(s) ==
    \/ s.isCheckmate
    \/ s.isStalemate
    \/ s.isRepeated3times
    \/ s.isInsufficientMaterial
    \/ s.halfMoveClock >= 100

\* a position is loaded over a game in progress at most MaxLoads times: over
\* one of the games ReloadFrom, or over a game that is over, and then one of
\* the positions ids
MayLoad(k, ids) ==
    \/ last = "init"
    \/ loads < MaxLoads /\ k \in ids /\ (game \in ReloadFrom \/ isGameOver(state))

\* the game in progress is replaced: the selection is dropped
\* (ResetSelectedPiece), the positions seen start again, and at most
\* MaxReloadPly plies are played in the position that replaces it
Replaces(k) ==
    /\ game' = k
    /\ CellX' = -1
    /\ CellY' = -1
    /\ loads' = IF last = "init" THEN loads ELSE loads + 1
    /\ steps' = IF last = "init" \/ steps >= Scenarios[k + 1].depth - MaxReloadPly THEN steps
                ELSE Scenarios[k + 1].depth - MaxReloadPly
    /\ prev' = NoPrev
    /\ seen' = <<PositionKey(state', NoSquare)>>
    /\ UNCHANGED <<undos, freed>>

\* the FEN popup: the pasted text is tested with ReadFEN and, when it is
\* accepted, loaded with LoadGameFromFEN
Load(k) ==
    /\ Running
    /\ ~isGameOver(state)
    /\ MayLoad(k, PopupIds)
    /\ ReadFEN(state, Scenarios[k + 1].fen, TRUE).ok
    /\ state' = LoadGameFromFEN(state, Scenarios[k + 1].fen)
    /\ last' = "load"
    /\ Replaces(k)

\* the file dialog: the text of the chosen file is loaded with
\* LoadGameFromFEN, without a test
LoadFile(k) ==
    /\ Running
    /\ ~isGameOver(state)
    /\ k \in FileIds
    /\ MayLoad(k, FileIds)
    /\ state' = LoadGameFromFEN(state, Scenarios[k + 1].fen)
    /\ last' = "load"
    /\ Replaces(k)

\* the Restart button
Restart ==
    /\ Running
    /\ ~isGameOver(state)
    /\ last # "init"
    /\ MayLoad(0, {0})
    /\ state' = RestartGame(state)
    /\ last' = "load"
    /\ Replaces(0)

\* the New Game button of the game-over window
NewGame ==
    /\ Running
    /\ isGameOver(state)
    /\ MayLoad(0, {0})
    /\ state' = RestartGame(state)
    /\ last' = "load"
    /\ Replaces(0)

\* DecideDestination, first click: a piece of the side to move is selected
Select(r, c) ==
    /\ Running
    /\ ~state.isPromoting
    /\ CellX = -1
    /\ steps < Depth
    /\ state.board[r][c].type # PIECE_NONE
    /\ state.board[r][c].team = state.turn
    /\ state' = FinalValidation(state, r, c,
                                PrimaryValidation(state, state.board[r][c].type, r, c, TRUE))
    /\ CellX' = r
    /\ CellY' = c
    /\ last' = "select"
    /\ UNCHANGED <<game, steps, undos, prev, seen, loads, freed>>

\* DecideDestination, second click on a square that is not flagged, or on
\* the selected square itself
Deselect(r, c) ==
    /\ Running
    /\ ~state.isPromoting
    /\ CellX # -1
    /\ <<r, c>> \notin state.isvalid \/ (r = CellX /\ c = CellY)
    /\ state' = [state EXCEPT !.isvalid = {}]
    /\ CellX' = -1
    /\ CellY' = -1
    /\ last' = "deselect"
    /\ UNCHANGED <<game, steps, undos, prev, seen, loads, freed>>

\* DecideDestination, second click on a flagged square: MovePiece
Move(r, c) ==
    /\ Running
    /\ ~state.isPromoting
    /\ CellX # -1
    /\ steps < Depth
    /\ <<r, c>> \in state.isvalid
    /\ ~(r = CellX /\ c = CellY)
    /\ state' = [MovePiece(state, CellX, CellY, r, c) EXCEPT !.isvalid = {}]
    /\ CellX' = -1
    /\ CellY' = -1
    /\ steps' = steps + 1
    /\ prev' = [core |-> Core(state), mover |-> state.turn,
                double |-> DoubleStep(state, CellX, CellY, r, c),
                from |-> <<CellX, CellY>>, to |-> <<r, c>>, choice |-> PIECE_NONE]
    /\ last' = IF state'.isPromoting THEN "pending" ELSE "move"
    /\ seen' = IF state'.isPromoting THEN seen
               ELSE Append(seen, PositionKey(state', prev'.double))
    /\ UNCHANGED <<game, undos, loads, freed>>

\* HandlePromotionInput: a click on one of the four menu squares
Promote(selectedType) ==
    /\ Running
    /\ state.isPromoting
    /\ state' = PromotePawn(state, selectedType)
    /\ last' = IF last = "pending" THEN "promote" ELSE "promoteLate"
    /\ seen' = Append(seen, PositionKey(state', NoSquare))
    /\ prev' = [prev EXCEPT !.choice = selectedType]
    /\ UNCHANGED <<CellX, CellY, game, steps, undos, loads, freed>>

\* Ctrl+Z or the undo button
Undo ==
    /\ Running
    /\ undos < MaxUndo
    /\ state' = UndoMove(state)
    /\ CellX' = IF Len(state.undoStack) > 0 THEN -1 ELSE CellX
    /\ CellY' = IF Len(state.undoStack) > 0 THEN -1 ELSE CellY
    /\ undos' = undos + 1
    /\ last' = IF Len(state.undoStack) = 0 THEN "undoEmpty"
               ELSE IF last \in {"move", "promote"} THEN "undoMove" ELSE "undo"
    /\ UNCHANGED <<game, steps, prev, seen, loads, freed>>

\* Ctrl+Shift+Z or the redo button
Redo ==
    /\ Running
    /\ undos < MaxUndo
    /\ state' = RedoMove(state)
    /\ undos' = undos + 1
    /\ last' = IF Len(state.redoStack) = 0 THEN "redoEmpty" ELSE "redo"
    /\ UNCHANGED <<CellX, CellY, game, steps, prev, seen, loads, freed>>

\* FreeDHA, FreeStack: the container is released and holds nothing
FreeDHA(DHA) == <<>>
FreeStack(stack) == <<>>

\* WindowShouldClose: the main loop ends and main unloads the board and
\* releases the position history and the two move stacks
Close ==
    /\ Running
    /\ state' = [UnloadBoard(state) EXCEPT !.DHA = FreeDHA(@),
                                           !.undoStack = FreeStack(@),
                                           !.redoStack = FreeStack(@)]
    /\ freed' = Containers
    /\ last' = "close"
    /\ UNCHANGED <<CellX, CellY, game, steps, undos, loads, prev, seen>>

Next ==
    \/ \E k \in ScenarioIds : Load(k)
    \/ \E k \in ScenarioIds : LoadFile(k)
    \/ Restart
    \/ NewGame
    \/ \E q \in Clicks : Select(q[1], q[2])
    \/ \E q \in Clicks : Deselect(q[1], q[2])
    \/ \E q \in Clicks : Move(q[1], q[2])
    \/ \E t \in {PIECE_QUEEN, PIECE_ROOK, PIECE_BISHOP, PIECE_KNIGHT} : Promote(t)
    \/ Undo
    \/ Redo
    \/ Close

Spec == Init /\ [][Next]_vars


-----------------------------------------------------------------------------
(* The rules of chess, stated on their own: what the properties below      *)
(* measure the engine against.                                             *)

Sign(x) == IF x > 0 THEN 1 ELSE IF x < 0 THEN -1 ELSE 0
Max(a, b) == IF a > b THEN a ELSE b

\* every square strictly between two aligned squares is empty
RuleClearPath(b, from, to) ==
    LET n == Max(Abs(to[1] - from[1]), Abs(to[2] - from[2]))
    IN  \A k \in 1..(n - 1) :
            b[from[1] + k * Sign(to[1] - from[1])][from[2] + k * Sign(to[2] - from[2])].type = PIECE_NONE

\* the piece standing on from attacks the square to
RuleAttacks(b, from, to) ==
    LET p == b[from[1]][from[2]]
        dr == to[1] - from[1]
        dc == to[2] - from[2]
        straight == (dr = 0) # (dc = 0)
        diagonal == Abs(dr) = Abs(dc) /\ dr # 0
    IN  CASE p.type = PIECE_PAWN -> dr = (IF p.team = TEAM_WHITE THEN -1 ELSE 1) /\ Abs(dc) = 1
          [] p.type = PIECE_KNIGHT -> {Abs(dr), Abs(dc)} = {1, 2}
          [] p.type = PIECE_KING -> Max(Abs(dr), Abs(dc)) = 1
          [] p.type = PIECE_ROOK -> straight /\ RuleClearPath(b, from, to)
          [] p.type = PIECE_BISHOP -> diagonal /\ RuleClearPath(b, from, to)
          [] p.type = PIECE_QUEEN -> (straight \/ diagonal) /\ RuleClearPath(b, from, to)
          [] OTHER -> FALSE

PiecesOf(b, team) == {q \in Squares : b[q[1]][q[2]].type # PIECE_NONE /\ b[q[1]][q[2]].team = team}

\* some piece of the other side attacks a king of team
RuleInCheck(b, team) ==
    \E k \in PiecesOf(b, team) :
        /\ b[k[1]][k[2]].type = PIECE_KING
        /\ \E q \in PiecesOf(b, Other(team)) : RuleAttacks(b, q, k)

\* the pawn taken by an en-passant capture from -> to, when double is the
\* pawn that advanced two squares on the ply before
RuleEnPassant(b, from, to, double) ==
    /\ double # NoSquare
    /\ b[from[1]][from[2]].type = PIECE_PAWN
    /\ double[1] = from[1]
    /\ Abs(double[2] - from[2]) = 1
    /\ to = <<from[1] + (IF b[from[1]][from[2]].team = TEAM_WHITE THEN -1 ELSE 1), double[2]>>
    /\ b[double[1]][double[2]].type = PIECE_PAWN
    /\ b[double[1]][double[2]].team # b[from[1]][from[2]].team

\* a move that obeys the movement rule of the piece, king safety aside
\* (castling apart)
RulePseudoLegal(b, from, to, double) ==
    LET p == b[from[1]][from[2]]
        t == b[to[1]][to[2]]
        dir == IF p.team = TEAM_WHITE THEN -1 ELSE 1
        home == IF p.team = TEAM_WHITE THEN 6 ELSE 1
    IN  /\ p.type # PIECE_NONE
        /\ from # to
        /\ IF p.type = PIECE_PAWN
           THEN \/ to = <<from[1] + dir, from[2]>> /\ t.type = PIECE_NONE
                \/ /\ from[1] = home
                   /\ to = <<from[1] + 2 * dir, from[2]>>
                   /\ t.type = PIECE_NONE
                   /\ b[from[1] + dir][from[2]].type = PIECE_NONE
                \/ RuleAttacks(b, from, to) /\ t.type # PIECE_NONE /\ t.team # p.team
                \/ RuleEnPassant(b, from, to, double)
           ELSE RuleAttacks(b, from, to) /\ (t.type = PIECE_NONE \/ t.team # p.team)

\* the placement after the move, the pawn taken en passant removed
RuleAfter(b, from, to, double) ==
    LET b1 == [b EXCEPT ![to[1]][to[2]] = b[from[1]][from[2]], ![from[1]][from[2]] = EmptyPiece]
    IN  IF RuleEnPassant(b, from, to, double)
        THEN [b1 EXCEPT ![double[1]][double[2]] = EmptyPiece] ELSE b1

\* the legal moves of team, castling apart (castling is never legal in check)
RuleLegalMoves(b, team, double) ==
    {m \in PiecesOf(b, team) \X Squares :
        /\ RulePseudoLegal(b, m[1], m[2], double)
        /\ ~RuleInCheck(RuleAfter(b, m[1], m[2], double), team)}

\* the destinations the engine flags when the piece on (r, c) is clicked
Offered(s, r, c) ==
    FinalValidation([s EXCEPT !.isvalid = {}], r, c,
                    PrimaryValidation(s, s.board[r][c].type, r, c, TRUE)).isvalid

\* the side to move has nothing to click
NothingOffered(s) == \A q \in PiecesOf(s.board, s.turn) : Offered(s, q[1], q[2]) = {}

\* the pawn that advanced two squares on the ply just made, if any
LastDouble == IF last = "move" THEN prev.double ELSE NoSquare

-----------------------------------------------------------------------------
(* Properties                                                              *)

\* C1: from the standard starting position, UndoMove called right after a
\* committed move (a promotion completed by PromotePawn included) gives back
\* what the move started from: piece type and team on every square, the four
\* castling rights, both clocks and enPassantCol.
C1_UndoRestoresState ==
    (game = 0 /\ last = "undoMove") => Core(state) = prev.core

\* C2: with a piece selected, every square flagged isvalid is safe: once
\* MovePiece has made that move, no enemy piece attacks the mover's king.
C2_FlaggedSquaresAreSafe ==
    (CellX # -1 /\ last = "select") =>
        \A d \in state.isvalid :
            ~RuleInCheck(MovePiece(state, CellX, CellY, d[1], d[2]).board, state.turn)

\* C3: isCheckmate and isStalemate are never both set; isCheckmate only with
\* the side to move Checked, isStalemate only with the side to move not
\* Checked.
C3_MateAndStalemateExclusive ==
    Running =>
        /\ ~(state.isCheckmate /\ state.isStalemate)
        /\ state.isCheckmate => Player(state, state.turn).Checked
        /\ state.isStalemate => ~Player(state, state.turn).Checked

\* C4: when isCheckmate or isStalemate is set after a ply, no piece of the
\* side to move has a destination that selection would flag, en-passant
\* captures included.
C4_FlaggedMeansNoMoveOffered ==
    (last \in {"move", "promote"} /\ (state.isCheckmate \/ state.isStalemate))
        => NothingOffered(state)

\* the placement after 1.f3 e5 2.g4 Qh4
FoolsMate ==
    /\ game = 0
    /\ last = "move"
    /\ steps = 4
    /\ state.board[4][7].type = PIECE_QUEEN
    /\ state.board[4][7].team = TEAM_BLACK
    /\ state.board[4][6].type = PIECE_PAWN
    /\ state.board[5][5].type = PIECE_PAWN
    /\ state.board[3][4].type = PIECE_PAWN

\* C5: after every committed ply, a side to move that is in check and has no
\* legal move is flagged: isCheckmate is set and so is that player's
\* Checkmated; after 1.f3 e5 2.g4 Qh4 isCheckmate is set with White checked.
C5_CheckmateIsFlagged ==
    /\ (last \in {"move", "promote"}
        /\ RuleInCheck(state.board, state.turn)
        /\ RuleLegalMoves(state.board, state.turn, LastDouble) = {})
       => (state.isCheckmate /\ Player(state, state.turn).Checkmated)
    /\ FoolsMate => (state.isCheckmate /\ state.whitePlayer.Checked)

\* the number of entries of seen[1..n] equal to seen[n]
Occurrences(n) == Cardinality({i \in 1..n : seen[i] = seen[n]})

\* C6: in a sequence of plies played from a loaded position (no undo, no
\* redo), isRepeated3times is set exactly from the ply on that produces some
\* position for the third time: it is set once a position has occurred three
\* times, and it is not set before.
C6_RepetitionOnThirdOccurrence ==
    (undos = 0 /\ last \in {"move", "promote"})
        => (state.isRepeated3times <=> \E n \in 1..Len(seen) : Occurrences(n) >= 3)

\* the state LoadGameFromFEN builds from the text SaveFEN writes for s
Reloaded(s) == LoadGameFromFEN(s, SaveFEN(s))

\* C7: for every reachable state, reading back the text SaveFEN returns is
\* accepted and reproduces the piece type and team on every square, the side
\* to move, the four castling rights, enPassantCol and both clocks.
C7_SaveThenLoadSameState ==
    Running =>
        /\ ReadFEN(state, SaveFEN(state), TRUE).ok
        /\ Core(Reloaded(state)) = Core(state)
        /\ Reloaded(state).turn = state.turn

\* the loaded texts that have the form SaveFEN writes: all six fields, and
\* clocks that fit the characters SaveFEN keeps of them
SavedFormIds == ScenarioIds \ {16, 17}

\* C8: a pasted text in the form SaveFEN writes, the standard starting text
\* first of all, is returned character for character by SaveFEN after the
\* load; so is the text SaveFEN writes for any reachable state.
C8_LoadThenSaveSameText ==
    Running =>
        /\ (last = "load" /\ game \in SavedFormIds) => SaveFEN(state) = Scenarios[game + 1].fen
        /\ SaveFEN(LoadGameFromFEN(state, STARTING_FEN)) = STARTING_FEN
        /\ SaveFEN(Reloaded(state)) = SaveFEN(state)

\* the standard starting text has been pasted and is given back
C8_Witness ==
    /\ last = "load"
    /\ game = 0
    /\ Scenarios[game + 1].fen = STARTING_FEN
    /\ SaveFEN(state) = STARTING_FEN

\* the material test in the words of the rule
RuleInsufficient(b) ==
    LET Of(types, team) == {q \in PiecesOf(b, team) : b[q[1]][q[2]].type \in types}
        minors(team) == Of({PIECE_BISHOP, PIECE_KNIGHT}, team)
        bishops(team) == Of({PIECE_BISHOP}, team)
        parity(q) == (q[1] + q[2]) % 2
    IN  /\ \A team \in Teams : Of({PIECE_PAWN, PIECE_QUEEN, PIECE_ROOK}, team) = {}
        /\ \/ minors(TEAM_WHITE) = {} /\ minors(TEAM_BLACK) = {}
           \/ \E team \in Teams : Cardinality(minors(team)) = 1 /\ minors(Other(team)) = {}
           \/ /\ \A team \in Teams : Cardinality(minors(team)) = 1 /\ bishops(team) = minors(team)
              /\ \A w \in bishops(TEAM_WHITE) : \A k \in bishops(TEAM_BLACK) : parity(w) = parity(k)

\* the operations that end in ResetsAndValidations
Settled == last \in {"load", "move", "promote", "promoteLate", "undo", "undoMove", "redo"}

\* C9: after every settle isInsufficientMaterial is set exactly when no pawn,
\* queen or rook is left and either no minor piece is left, or one side has
\* exactly one minor piece and the other none, or each side has exactly one
\* minor piece, both are bishops and they stand on squares of the same
\* parity of row + col.
C9_InsufficientMaterialExact ==
    Settled => (state.isInsufficientMaterial <=> RuleInsufficient(state.board))

\* king and bishop against king and bishop on squares of the same colour
C9_Witness ==
    /\ last = "load"
    /\ state.isInsufficientMaterial
    /\ \E w \in PiecesOf(state.board, TEAM_WHITE) : \E k \in PiecesOf(state.board, TEAM_BLACK) :
           /\ state.board[w[1]][w[2]].type = PIECE_BISHOP
           /\ state.board[k[1]][k[2]].type = PIECE_BISHOP
           /\ (w[1] + w[2]) % 2 = (k[1] + k[2]) % 2

\* the step is a MovePiece call that lands a pawn on its last rank
PawnReachesLastRank ==
    /\ last' \in {"move", "pending"}
    /\ state.board[prev'.from[1]][prev'.from[2]].type = PIECE_PAWN
    /\ prev'.to[1] = (IF prev'.mover = TEAM_WHITE THEN 0 ELSE BOARD_SIZE - 1)

\* the step is a PromotePawn call; the chosen piece stands on the square the
\* pawn reached, on the mover's team, and the promotion is over
PromotionDone ==
    /\ ~state'.isPromoting
    /\ state'.board[prev.to[1]][prev.to[2]].type = prev'.choice
    /\ state'.board[prev.to[1]][prev.to[2]].team = prev.mover

\* C10: a pawn move reaching the last rank sets isPromoting; from then until
\* PromotePawn no MovePiece call changes anything (the controller hands every
\* board click to the promotion menu, so no step taken while isPromoting is
\* set is a selection or a move); after PromotePawn(T) the square the pawn
\* reached holds a T of the mover's team and isPromoting is cleared.
C10_PromotionInterrupt ==
    [][/\ PawnReachesLastRank => state'.isPromoting
       /\ state.isPromoting => last' \notin {"select", "deselect", "move", "pending"}
       /\ last' \in {"promote", "promoteLate"} => PromotionDone]_vars

-----------------------------------------------------------------------------
\* C11: a two-square pawn advance made by MovePiece leaves enPassantCol equal
\* to the file of that pawn; any other move leaves it at -1.
C11_EnPassantColOnePly ==
    last = "move" =>
        state.enPassantCol = (IF prev.double # NoSquare THEN prev.double[2] ELSE -1)

\* some piece of team by attacks the square sq
RuleAttacked(b, sq, by) == \E q \in PiecesOf(b, by) : RuleAttacks(b, q, sq)

\* the castling right of team on the wing of the landing file col
RuleRight(s, team, col) ==
    IF team = TEAM_WHITE
    THEN (IF col > KING_START_COL THEN s.whiteKingSide ELSE s.whiteQueenSide)
    ELSE (IF col > KING_START_COL THEN s.blackKingSide ELSE s.blackQueenSide)

\* C12: with a king selected, a destination two files away (castling) is
\* flagged only if that right is set, the king is not in check, every square
\* strictly between king and rook is empty, and neither the square the king
\* passes over nor the square it lands on is attacked by an enemy piece.
C12_CastlingOnlyWhenSafe ==
    (last = "select" /\ CellX # -1 /\ state.board[CellX][CellY].type = PIECE_KING) =>
        \A d \in state.isvalid :
            (d[1] = CellX /\ Abs(d[2] - CellY) = 2) =>
                LET rookCol == IF d[2] > CellY THEN ROOK_KS_COL ELSE ROOK_QS_COL
                    transit == <<CellX, (CellY + d[2]) \div 2>>
                IN  /\ RuleRight(state, state.turn, d[2])
                    /\ ~RuleInCheck(state.board, state.turn)
                    /\ \A c \in Idx : ((c > CellY /\ c < rookCol) \/ (c < CellY /\ c > rookCol))
                                          => state.board[CellX][c].type = PIECE_NONE
                    /\ ~RuleAttacked(state.board, transit, Other(state.turn))
                    /\ ~RuleAttacked(state.board, d, Other(state.turn))

\* C13: in a line of play without undo or redo, with a pawn selected, a
\* diagonal step onto an empty square (an en-passant capture) is flagged only
\* when the square beside the pawn, on the file of the destination, holds an
\* enemy pawn and that pawn's two-square advance was the ply just made; the
\* capture therefore removes nothing but such a pawn.
C13_EnPassantOnlyAfterDoubleStep ==
    (undos = 0 /\ last = "select" /\ CellX # -1
     /\ state.board[CellX][CellY].type = PIECE_PAWN) =>
        \A d \in state.isvalid :
            (d[2] # CellY /\ state.board[d[1]][d[2]].type = PIECE_NONE) =>
                /\ prev.double = <<CellX, d[2]>>
                /\ state.board[CellX][d[2]].type = PIECE_PAWN
                /\ state.board[CellX][d[2]].team # state.turn

\* the kings of team on the board
KingsOf(b, team) == {q \in PiecesOf(b, team) : b[q[1]][q[2]].type = PIECE_KING}

\* C14: in every state reached by flagged moves, completed promotions,
\* UndoMove and RedoMove the board holds exactly one white king and exactly
\* one black king.  (Every position loaded here arises from the standard
\* starting position by legal play.)
C14_OneKingPerSide ==
    Running =>
        \A team \in Teams : Cardinality(KingsOf(state.board, team)) = 1

\* C15: no step other than an UndoMove call or the loading of a text turns a
\* castling right from false to true: across MovePiece, PromotePawn and
\* RedoMove (and across selection) a right that is false stays false.
C15_RightsReturnOnlyByUndo ==
    [][last' \notin {"load", "undo", "undoMove", "undoEmpty"} =>
          \A i \in 1..4 : Rights(state')[i] => Rights(state)[i]]_vars

\* a king move has been redone and has cleared again the rights that the
\* undo before it had given back
C15_Witness ==
    /\ last = "redo"
    /\ Len(state.undoStack) > 0
    /\ state.undoStack[Len(state.undoStack)].pieceMovedType = PIECE_KING
    /\ state.undoStack[Len(state.undoStack)].whiteKingSide
    /\ ~state.whiteKingSide

\* coordinates tried in MovePiece calls that the controller never makes
ProbeCoords == {-1, 0, 3, BOARD_SIZE}

\* a request MovePiece is to ignore: a coordinate off the board, an empty
\* source square, or source equal to destination
InvalidRequest(s, r1, c1, r2, c2) ==
    \/ ~OnBoard(r1, c1)
    \/ ~OnBoard(r2, c2)
    \/ s.board[r1][c1].type = PIECE_NONE
    \/ (r1 = r2 /\ c1 = c2)

\* C16: in every reachable state a MovePiece call with a coordinate outside
\* 0..7, with an empty source square, or with source equal to destination
\* returns the GameState it was given, every field unchanged.
C16_InvalidRequestIgnored ==
    Running =>
        \A r1 \in ProbeCoords : \A c1 \in ProbeCoords : \A r2 \in ProbeCoords : \A c2 \in ProbeCoords :
            InvalidRequest(state, r1, c1, r2, c2) => MovePiece(state, r1, c1, r2, c2) = state

\* after a move, with history on both stacks' side: each kind of request that
\* is ignored exists and is ignored
C16_Witness ==
    /\ last = "move"
    /\ Len(state.undoStack) > 0
    /\ MovePiece(state, -1, 0, 0, 0) = state
    /\ MovePiece(state, 0, 0, 0, BOARD_SIZE) = state
    /\ \E q \in Squares : /\ state.board[q[1]][q[2]].type = PIECE_NONE
                          /\ MovePiece(state, q[1], q[2], 0, 0) = state
    /\ \E q \in PiecesOf(state.board, state.turn) : MovePiece(state, q[1], q[2], q[1], q[2]) = state

\* C17: with an empty undo stack UndoMove, and with an empty redo stack
\* RedoMove, returns the GameState it was given (board, turn, rights, clocks,
\* enPassantCol, end-of-game flags, both stacks, position history), and the
\* PopStack call inside reports FALSE.
C17_EmptyStackNoOp ==
    Running =>
        /\ Len(state.undoStack) = 0 =>
               (~PopStack(state.undoStack).ok /\ UndoMove(state) = state)
        /\ Len(state.redoStack) = 0 =>
               (~PopStack(state.redoStack).ok /\ RedoMove(state) = state)

\* Ctrl+Z was pressed a second time after the only move had been undone, the
\* redo stack holding that move; redo on the emptied redo stack likewise
C17_Witness ==
    /\ last \in {"undoEmpty", "redoEmpty"}
    /\ steps > 0
    /\ (last = "undoEmpty") => (Len(state.undoStack) = 0 /\ Len(state.redoStack) > 0)
    /\ (last = "redoEmpty") => (Len(state.redoStack) = 0 /\ Len(state.undoStack) > 0)

\* texts whose placement is well formed and whose first malformed field is,
\* in turn, the active colour, the castling letters, the en-passant target and
\* the move counters
MalformedTexts ==
    {\* the active colour is no colour: 4k3/8/8/8/8/8/8/4K3 x KQkq - 0 1
     <<"4", "k", "3", "/", "8", "/", "8", "/", "8", "/", "8", "/", "8", "/", "8", "/", "4", "K", "3", " ", "x", " ", "K", "Q", "k", "q", " ", "-", " ", "0", " ", "1">>,
     \* the castling field starts with a letter that is none of K Q k q: 4k3/8/8/8/8/8/8/4K3 w x - 0 1
     <<"4", "k", "3", "/", "8", "/", "8", "/", "8", "/", "8", "/", "8", "/", "8", "/", "4", "K", "3", " ", "w", " ", "x", " ", "-", " ", "0", " ", "1">>,
     \* the en-passant field names no file: 4k3/8/8/8/8/8/8/4K3 w - x 0 1
     <<"4", "k", "3", "/", "8", "/", "8", "/", "8", "/", "8", "/", "8", "/", "8", "/", "4", "K", "3", " ", "w", " ", "-", " ", "x", " ", "0", " ", "1">>,
     \* the halfmove counter is no number: 4k3/8/8/8/8/8/8/4K3 w Kq - x 1
     <<"4", "k", "3", "/", "8", "/", "8", "/", "8", "/", "8", "/", "8", "/", "8", "/", "4", "K", "3", " ", "w", " ", "K", "q", " ", "-", " ", "x", " ", "1">>}

\* C18: ReadFEN in non-test mode, given a text that is malformed from the
\* active-colour field onward (one of the texts above, or the file that ends
\* before the move counters), returns FALSE and leaves the four castling
\* rights, the halfmove clock and the fullmove number as they were.
C18_RejectedTextKeepsRightsAndClocks ==
    Running =>
        \A text \in MalformedTexts \cup {Scenarios[17].fen} :
            LET r == ReadFEN(state, text, FALSE)
            IN  /\ ~r.ok
                /\ Rights(r.s) = Rights(state)
                /\ r.s.halfMoveClock = state.halfMoveClock
                /\ r.s.fullMoveNumber = state.fullMoveNumber

-----------------------------------------------------------------------------
(* The growable containers in memory.  A container is its data array       *)
(* (one slot per unit of capacity, slots at and above size holding         *)
(* whatever was stored there last), size and capacity.  realloc either     *)
(* fails, returning NULL and leaving the old block alone, or hands back a   *)
(* block of the new length that keeps the old contents.                    *)

\* the content of a slot that was allocated and never written
Uninit == <<"uninit">>

\* the capacities main creates the containers with
INITIAL_DYNAMIC_HASH_ARRAY_SIZE == 32
INITAL_UNDO_REDO_STACK_SIZE == 32

\* bounds of the container runs: no container grows beyond MaxCapacity
\* slots, and only the lowest VariedSlots slots of a container are given a
\* value other than the first of its values
MaxCapacity == 64
VariedSlots == 2

InitializeStack(initialMaximumCapacity) ==
    LET cap == IF initialMaximumCapacity < 1 THEN 1 ELSE initialMaximumCapacity
    IN  [data |-> [i \in 1..cap |-> Uninit], size |-> 0, capacity |-> cap]

InitializeDHA(capacity) ==
    LET cap == IF capacity < 1 THEN 1 ELSE capacity
    IN  [hashArray |-> [i \in 1..cap |-> Uninit], size |-> 0, capacity |-> cap]

\* the capacity is doubled before realloc's result is looked at
ExpandStackEarly(stack, size, temp) ==
    IF ~temp THEN [ok |-> FALSE, stack |-> [stack EXCEPT !.capacity = size]]
    ELSE [ok |-> TRUE,
          stack |-> [stack EXCEPT !.data = [i \in 1..size |-> IF i <= Len(stack.data)
                                                             THEN stack.data[i] ELSE Uninit],
                                  !.capacity = size]]

\* ExpandStack: temp is what realloc returned, FALSE for NULL
ExpandStack(stack, size, temp) ==
    IF ~temp THEN [ok |-> FALSE, stack |-> stack]
    ELSE [ok |-> TRUE,
          stack |-> [stack EXCEPT !.data = [i \in 1..size |-> IF i <= Len(stack.data)
                                                             THEN stack.data[i] ELSE Uninit],
                                  !.capacity = size]]

\* PushStack on the container in memory
PushStackMem(stack, move, temp) ==
    LET e == IF stack.size >= stack.capacity
             THEN ExpandStack(stack, 2 * stack.capacity, temp)
             ELSE [ok |-> TRUE, stack |-> stack]
    IN  IF ~e.ok THEN [ok |-> FALSE, stack |-> e.stack]
        ELSE [ok |-> TRUE,
              stack |-> [e.stack EXCEPT !.data[e.stack.size + 1] = move, !.size = @ + 1]]

PopStackMem(stack) ==
    IF stack.size = 0 THEN [ok |-> FALSE, stack |-> stack]
    ELSE [ok |-> TRUE, stack |-> [stack EXCEPT !.size = @ - 1]]

ClearStackMem(stack) == [stack EXCEPT !.size = 0]

\* ExpandDHA: temp is what realloc returned, FALSE for NULL
ExpandDHA(DHA, expandFactor, temp) ==
    IF ~temp THEN [ok |-> FALSE, DHA |-> DHA]
    ELSE [ok |-> TRUE,
          DHA |-> [DHA EXCEPT !.hashArray = [i \in 1..(DHA.capacity * expandFactor) |->
                                                 IF i <= Len(DHA.hashArray)
                                                 THEN DHA.hashArray[i] ELSE Uninit],
                              !.capacity = @ * expandFactor]]

\* PushDHA on the container in memory
PushDHAMem(DHA, hash, temp) ==
    LET e == IF DHA.size >= DHA.capacity
             THEN ExpandDHA(DHA, 2, temp)
             ELSE [ok |-> TRUE, DHA |-> DHA]
    IN  IF ~e.ok THEN [ok |-> FALSE, DHA |-> e.DHA]
        ELSE [ok |-> TRUE,
              DHA |-> [e.DHA EXCEPT !.hashArray[e.DHA.size + 1] = hash, !.size = @ + 1]]

\* PopDHA: the value handed back is discarded by the caller; size drops
PopDHAMem(DHA) == IF DHA.size = 0 THEN DHA ELSE [DHA EXCEPT !.size = @ - 1]

\* (Hash){0}
ZeroHash == <<>>

\* the value PopDHA hands back: hashArray[size] is read before size drops,
\* which is the slot above the last stored hash; with size = capacity that
\* slot lies outside the block and beyond is what the read yields
PopDHARet(DHA, beyond) ==
    IF DHA.size = 0 THEN ZeroHash
    ELSE IF DHA.size < DHA.capacity THEN DHA.hashArray[DHA.size + 1]
    ELSE beyond

ClearDHAMem(DHA) == [DHA EXCEPT !.size = 0]

\* FreeStack, FreeDHA: the data block and the container are released; what
\* is left is a container of no slots
FreeStackMem(stack) == [data |-> <<>>, size |-> 0, capacity |-> 0]
FreeDHAMem(DHA) == [hashArray |-> <<>>, size |-> 0, capacity |-> 0]

\* what is pushed in the container runs
MoveValues == {[ZeroMove EXCEPT !.finalCol = k] : k \in 0..1}
HashValues == {<<"w">>, <<"b">>}

\* what a read above the block can yield
BeyondValues == HashValues \cup {Uninit}

\* In the container runs state holds the three containers, game is the
\* container the run makes its calls on (the other two stay as they were
\* created), last names the latest call, prev the container it was made on,
\* its argument or the element it handed back, whether realloc was called
\* and what it returned, and the value the call returned; undos is 1 once a
\* push failed.
NoCall == [on |-> "none", arg |-> Uninit, realloc |-> "none", ret |-> TRUE]

Exercised == <<"undoStack", "redoStack", "DHA">>[game + 1]

\* main: InitializeDHA, InitializeStack, InitializeStack
AllocInit ==
    /\ state = [DHA |-> InitializeDHA(INITIAL_DYNAMIC_HASH_ARRAY_SIZE),
                undoStack |-> InitializeStack(INITAL_UNDO_REDO_STACK_SIZE),
                redoStack |-> InitializeStack(INITAL_UNDO_REDO_STACK_SIZE)]
    /\ CellX = -1
    /\ CellY = -1
    /\ game \in 0..2
    /\ steps = 0
    /\ undos = 0
    /\ loads = 0
    /\ freed = {}
    /\ last = "init"
    /\ prev = NoCall
    /\ seen = <<>>

\* realloc's part in a push: not called while there is room, else temp
Realloc(size, capacity, temp) ==
    IF size < capacity THEN "none" ELSE IF temp THEN "block" ELSE "NULL"

\* PushStack(state.undoStack, move) or PushStack(state.redoStack, move); a
\* realloc that succeeds is bounded
PushMove(st, move, temp) ==
    /\ Running
    /\ st = Exercised
    /\ move.finalCol = 0 \/ state[st].size < VariedSlots
    /\ (temp /\ state[st].size >= state[st].capacity) => 2 * state[st].capacity <= MaxCapacity
    /\ (~temp) => state[st].size >= state[st].capacity
    /\ state' = [state EXCEPT ![st] = PushStackMem(@, move, temp).stack]
    /\ last' = "PushStack"
    /\ prev' = [on |-> st, arg |-> move,
                realloc |-> Realloc(state[st].size, state[st].capacity, temp),
                ret |-> PushStackMem(state[st], move, temp).ok]
    /\ undos' = IF PushStackMem(state[st], move, temp).ok THEN undos ELSE 1
    /\ UNCHANGED <<CellX, CellY, game, steps, seen, loads, freed>>

\* PushDHA(state.DHA, hash)
PushHash(hash, temp) ==
    /\ Running
    /\ Exercised = "DHA"
    /\ hash = <<"w">> \/ state.DHA.size < VariedSlots
    /\ (temp /\ state.DHA.size >= state.DHA.capacity) => 2 * state.DHA.capacity <= MaxCapacity
    /\ (~temp) => state.DHA.size >= state.DHA.capacity
    /\ state' = [state EXCEPT !.DHA = PushDHAMem(@, hash, temp).DHA]
    /\ last' = "PushDHA"
    /\ prev' = [on |-> "DHA", arg |-> hash,
                realloc |-> Realloc(state.DHA.size, state.DHA.capacity, temp),
                ret |-> PushDHAMem(state.DHA, hash, temp).ok]
    /\ undos' = IF PushDHAMem(state.DHA, hash, temp).ok THEN undos ELSE 1
    /\ UNCHANGED <<CellX, CellY, game, steps, seen, loads, freed>>

\* PopStack(state.undoStack, &move) or PopStack(state.redoStack, &move);
\* prev.arg is the move stored in *out
PopMove(st) ==
    /\ Running
    /\ st = Exercised
    /\ state' = [state EXCEPT ![st] = PopStackMem(@).stack]
    /\ last' = "PopStack"
    /\ prev' = [on |-> st,
                arg |-> IF PopStackMem(state[st]).ok THEN state[st].data[state[st].size]
                        ELSE Uninit,
                realloc |-> "none", ret |-> PopStackMem(state[st]).ok]
    /\ UNCHANGED <<CellX, CellY, game, steps, undos, seen, loads, freed>>

\* PopDHA(state.DHA); prev.arg is the hash it returned, beyond what a read
\* outside the block yields
PopHash(beyond) ==
    /\ Running
    /\ Exercised = "DHA"
    /\ state' = [state EXCEPT !.DHA = PopDHAMem(@)]
    /\ last' = "PopDHA"
    /\ prev' = [on |-> "DHA", arg |-> PopDHARet(state.DHA, beyond),
                realloc |-> "none", ret |-> TRUE]
    /\ UNCHANGED <<CellX, CellY, game, steps, undos, seen, loads, freed>>

\* ClearDHA(state.DHA), as a pawn move or a capture calls it
ClearHashes ==
    /\ Running
    /\ Exercised = "DHA"
    /\ state' = [state EXCEPT !.DHA = ClearDHAMem(@)]
    /\ last' = "ClearDHA"
    /\ prev' = [NoCall EXCEPT !.on = "DHA"]
    /\ UNCHANGED <<CellX, CellY, game, steps, undos, seen, loads, freed>>

\* ClearStack(state.undoStack) or ClearStack(state.redoStack), as
\* LoadGameFromFEN calls them
ClearMoves(st) ==
    /\ Running
    /\ st = Exercised
    /\ state' = [state EXCEPT ![st] = ClearStackMem(@)]
    /\ last' = "ClearStack"
    /\ prev' = [NoCall EXCEPT !.on = st]
    /\ UNCHANGED <<CellX, CellY, game, steps, undos, seen, loads, freed>>

\* the end of main: FreeDHA(state.DHA), FreeStack(state.undoStack),
\* FreeStack(state.redoStack)
Free ==
    /\ Running
    /\ state' = [DHA |-> FreeDHAMem(state.DHA),
                 undoStack |-> FreeStackMem(state.undoStack),
                 redoStack |-> FreeStackMem(state.redoStack)]
    /\ freed' = Containers
    /\ last' = "Free"
    /\ prev' = NoCall
    /\ UNCHANGED <<CellX, CellY, game, steps, undos, seen, loads>>

AllocNext ==
    \/ \E st \in {"undoStack", "redoStack"} : \E move \in MoveValues : \E temp \in BOOLEAN :
           PushMove(st, move, temp)
    \/ \E hash \in HashValues : \E temp \in BOOLEAN : PushHash(hash, temp)
    \/ \E st \in {"undoStack", "redoStack"} : PopMove(st)
    \/ \E beyond \in BeyondValues : PopHash(beyond)
    \/ ClearHashes
    \/ \E st \in {"undoStack", "redoStack"} : ClearMoves(st)
    \/ Free

AllocSpec == AllocInit /\ [][AllocNext]_vars

\* the elements a container stores: its slots below size
Stored(data, size) == SubSeq(data, 1, size)

\* C19: a push whose realloc fails returns FALSE and leaves the container as
\* it was: same size, same capacity, same content of every slot; a push that
\* succeeds, after failed ones as well, stores its argument on top of the
\* elements stored before and changes none of them.
C19_FailedPushLeavesContainer ==
    [][/\ (last' = "PushStack" /\ prev'.realloc = "NULL")
              => (~prev'.ret /\ state'[prev'.on] = state[prev'.on])
       /\ (last' = "PushDHA" /\ prev'.realloc = "NULL")
              => (~prev'.ret /\ state'.DHA = state.DHA)
       /\ (last' = "PushStack" /\ prev'.realloc # "NULL")
              => /\ prev'.ret
                 /\ Stored(state'[prev'.on].data, state'[prev'.on].size)
                        = Append(Stored(state[prev'.on].data, state[prev'.on].size), prev'.arg)
       /\ (last' = "PushDHA" /\ prev'.realloc # "NULL")
              => /\ prev'.ret
                 /\ Stored(state'.DHA.hashArray, state'.DHA.size)
                        = Append(Stored(state.DHA.hashArray, state.DHA.size), prev'.arg)]_vars

\* a push on the full undo stack has failed, and a later push on it got its
\* block and stored its move on top of the moves stored before
C19_Witness ==
    /\ undos = 1
    /\ last = "PushStack"
    /\ prev.on = "undoStack"
    /\ prev.realloc = "block"
    /\ prev.ret
    /\ state.undoStack.size = INITAL_UNDO_REDO_STACK_SIZE + 1
    /\ state.undoStack.capacity = 2 * INITAL_UNDO_REDO_STACK_SIZE
    /\ state.undoStack.data[state.undoStack.size] = prev.arg
    /\ state.undoStack.data[1].finalCol = 1

-----------------------------------------------------------------------------
\* C20: the Move record a committed MovePiece call has pushed holds the
\* halfmove clock and the four castling rights as they were when MovePiece
\* was entered.
C20_MoveRecordHoldsEntryState ==
    (last = "move" /\ Len(state.undoStack) > 0) =>
        LET move == state.undoStack[Len(state.undoStack)]
        IN  /\ move.halfMove = prev.core.halfMoveClock
            /\ <<move.whiteKingSide, move.whiteQueenSide,
                 move.blackKingSide, move.blackQueenSide>> = prev.core.rights

\* what a move, its undo and its redo are compared on
Outcome(s) ==
    [placement |-> Placement(s.board), turn |-> s.turn, rights |-> Rights(s),
     enPassantCol |-> s.enPassantCol, halfMoveClock |-> s.halfMoveClock,
     fullMoveNumber |-> s.fullMoveNumber,
     flags |-> <<s.isCheckmate, s.isStalemate, s.isRepeated3times, s.isInsufficientMaterial>>,
     undoStack |-> s.undoStack, redoStack |-> s.redoStack, DHA |-> s.DHA]

\* C21: right after a committed move (a promotion completed by PromotePawn
\* included), UndoMove followed by RedoMove gives the state the move left:
\* same placement, side to move, castling rights, enPassantCol, clocks,
\* end-of-game flags, undo stack, redo stack and position-hash history.
C21_UndoRedoGivesStateAfterMove ==
    (last \in {"move", "promote"} /\ undos = 0) =>
        Outcome(RedoMove(UndoMove(state))) = Outcome(state)

\* C22: after a committed ply (ordinary move, castling, completed promotion,
\* redo) the last entry of the position-hash history is the hash of the
\* current position; and MovePiece followed by UndoMove leaves the history as
\* it was before the move.
C22_HistoryFollowsPosition ==
    /\ last \in {"move", "promote", "redo"} =>
           /\ Len(state.DHA) > 0
           /\ state.DHA[Len(state.DHA)] = CurrentGameStateHash(state)
    /\ (last = "select" /\ CellX # -1) =>
           \A d \in state.isvalid :
               LET moved == MovePiece(state, CellX, CellY, d[1], d[2])
               IN  ~moved.isPromoting => UndoMove(moved).DHA = state.DHA

\* C23: while a promotion is pending, an undo or redo request leaves the
\* GameState unchanged, so PromotePawn runs on the state the promoting
\* MovePiece left.
C23_PendingPromotionBlocksUndoRedo ==
    [][(state.isPromoting /\ last' \in {"undo", "undoMove", "undoEmpty", "redo", "redoEmpty"})
          => state' = state]_vars

\* the en-passant captures offered to the side to move: a pawn and a flagged
\* empty square on a neighbouring file
EnPassantOffers(s) ==
    {m \in PiecesOf(s.board, s.turn) \X Squares :
        /\ s.board[m[1][1]][m[1][2]].type = PIECE_PAWN
        /\ m[2][2] # m[1][2]
        /\ s.board[m[2][1]][m[2][2]].type = PIECE_NONE
        /\ m[2] \in Offered(s, m[1][1], m[1][2])}

\* C24: when the ply before was a two-square pawn advance and a piece has been
\* selected, every en-passant capture on offer in the position is offered
\* again after any flagged move of the selected piece has been made and
\* undone; and after a move and its undo no en-passant capture is offered that
\* was neither offered before the move nor named by enPassantCol.
C24_UndoKeepsEnPassantOffers ==
    (last = "select" /\ CellX # -1 /\ undos = 0) =>
        \A d \in state.isvalid :
            LET moved == MovePiece(state, CellX, CellY, d[1], d[2])
            IN  ~moved.isPromoting =>
                    /\ prev.double # NoSquare =>
                           EnPassantOffers(state) \subseteq EnPassantOffers(UndoMove(moved))
                    /\ \A m \in EnPassantOffers(UndoMove(moved)) :
                           m \in EnPassantOffers(state) \/ m[2][2] = state.enPassantCol

\* C25: UndoMove called right after a committed move (ordinary, capture, en
\* passant, castling, completed promotion) gives back the piece type and
\* team on every square as they were before the move, and the turn goes back
\* to the player who made the move.
C25_UndoRestoresPlacementAndTurn ==
    last = "undoMove" =>
        /\ Placement(state.board) = prev.core.placement
        /\ state.turn = prev.mover

\* the game was started from the standard starting position
FromStandardStart == Scenarios[game + 1].fen = STARTING_FEN

\* C26: in a game started from the standard starting position, a selected
\* pawn is offered a square two ranks ahead on its own file only if it stands
\* on its home rank and both squares in front of it are empty.
C26_DoubleStepOnlyFromHomeRank ==
    (FromStandardStart /\ last = "select" /\ CellX # -1
     /\ state.board[CellX][CellY].type = PIECE_PAWN) =>
        \A d \in state.isvalid : (d[2] = CellY /\ Abs(d[1] - CellX) = 2) =>
            /\ CellX = (IF state.turn = TEAM_WHITE THEN 6 ELSE 1)
            /\ state.board[(CellX + d[1]) \div 2][CellY].type = PIECE_NONE
            /\ state.board[d[1]][d[2]].type = PIECE_NONE

\* one sequence begins with the other
IsPrefix(a, b) == Len(a) <= Len(b) /\ SubSeq(b, 1, Len(a)) = a

\* C27: for the selected piece and any flagged square, MovePiece adds 1 to
\* the fullmove number exactly when Black moves; when the piece is a pawn or
\* the square is occupied the halfmove clock becomes 0 and no earlier entry
\* of the position-hash history is kept; otherwise the clock grows by 1 and
\* the history keeps its entries.
C27_ClocksAndHistoryReset ==
    (last = "select" /\ CellX # -1) =>
        \A d \in state.isvalid :
            LET moved == MovePiece(state, CellX, CellY, d[1], d[2])
                reset == state.board[CellX][CellY].type = PIECE_PAWN
                         \/ state.board[d[1]][d[2]].type # PIECE_NONE
            IN  /\ moved.fullMoveNumber =
                       state.fullMoveNumber + (IF state.turn = TEAM_BLACK THEN 1 ELSE 0)
                /\ reset => /\ moved.halfMoveClock = 0
                            /\ Len(moved.DHA) <= 1
                            /\ \A i \in 1..Len(moved.DHA) : moved.DHA[i] = CurrentGameStateHash(moved)
                /\ ~reset => /\ moved.halfMoveClock = state.halfMoveClock + 1
                             /\ IsPrefix(state.DHA, moved.DHA)

\* Black has just captured with a piece that is not a pawn, after a quiet
\* move had raised the halfmove clock
C27_Witness ==
    /\ last = "move"
    /\ prev.mover = TEAM_BLACK
    /\ prev.core.placement[prev.from[1]][prev.from[2]][1] # PIECE_PAWN
    /\ prev.core.placement[prev.to[1]][prev.to[2]][1] # PIECE_NONE
    /\ prev.core.halfMoveClock > 0
    /\ state.halfMoveClock = 0
    /\ state.fullMoveNumber = prev.core.fullMoveNumber + 1
    /\ Len(state.DHA) = 1

\* a record of a pawn move or of a capture
ResetsClock(move) == move.pieceMovedType = PIECE_PAWN \/ move.pieceCapturedType # PIECE_NONE

\* the number of records on top of the stack above the last pawn move or capture
QuietRun(stack) ==
    LET resets == {i \in 1..Len(stack) : ResetsClock(stack[i])}
    IN  Cardinality({i \in 1..Len(stack) : \A j \in resets : j < i})

\* C28: in a game started from the standard starting position and with no
\* promotion pending, the fullmove number is 1 plus the number of Black moves
\* on the undo stack, and the halfmove clock is the number of moves on top of
\* the undo stack since the last pawn move or capture.
C28_ClocksCountTheUndoStack ==
    (Running /\ FromStandardStart /\ ~state.isPromoting) =>
        /\ state.fullMoveNumber =
               1 + Cardinality({i \in 1..Len(state.undoStack) :
                                    state.undoStack[i].pieceMovedTeam = TEAM_BLACK})
        /\ state.halfMoveClock = QuietRun(state.undoStack)

\* C29: whenever a promotion is pending, the side to move is still the side
\* of the pawn on the promotion square and the pending move is not on the undo
\* stack; the PromotePawn call that completes it appends exactly one record to
\* the undo stack, the pending move with the chosen promotionType, empties the
\* redo stack and passes the turn to the other side.
C29_PromotionDefersTurnAndRecord ==
    [][/\ (state'.isPromoting /\ freed' = {}) =>
              /\ state'.turn = state'.board[state'.promotionRow][state'.promotionCol].team
              /\ \A i \in 1..Len(state'.undoStack) : state'.undoStack[i] # state'.pendingMove
       /\ (state.isPromoting /\ last' \in {"promote", "promoteLate"}) =>
              /\ state'.undoStack =
                     Append(state.undoStack, [state.pendingMove EXCEPT !.promotionType = prev'.choice])
              /\ state'.redoStack = <<>>
              /\ state'.turn = Other(state.turn)
              /\ ~state'.isPromoting]_vars

\* a stack without its top record
Front(stack) == SubSeq(stack, 1, Len(stack) - 1)

\* the two stacks
Stacks(s) == <<s.undoStack, s.redoStack>>

\* C30: a committed move (ordinary, castling, promotion completed by
\* PromotePawn) appends exactly one record to the undo stack and empties the
\* redo stack; a successful UndoMove moves the top record of the undo stack to
\* the redo stack and a successful RedoMove moves the top record of the redo
\* stack back; and right after a committed move, k successful UndoMove calls
\* followed by k RedoMove calls, k = 1, 2, leave both stacks as they were.
C30_StacksMoveOneRecord ==
    [][/\ last' \in {"move", "promote", "promoteLate"} =>
              /\ Len(state'.undoStack) = Len(state.undoStack) + 1
              /\ Front(state'.undoStack) = state.undoStack
              /\ state'.redoStack = <<>>
       /\ last' \in {"undo", "undoMove"} =>
              /\ state'.undoStack = Front(state.undoStack)
              /\ state'.redoStack = Append(state.redoStack, state.undoStack[Len(state.undoStack)])
       /\ last' = "redo" =>
              /\ state'.redoStack = Front(state.redoStack)
              /\ state'.undoStack = Append(state.undoStack, state.redoStack[Len(state.redoStack)])
       /\ (last' \in {"move", "promote"} /\ undos = 0) =>
              Stacks(RedoMove(UndoMove(state'))) = Stacks(state')
       /\ (last' \in {"move", "promote"} /\ undos = 0 /\ Len(state'.undoStack) >= 2) =>
              Stacks(RedoMove(RedoMove(UndoMove(UndoMove(state'))))) = Stacks(state')]_vars

\* the latest of at least two committed moves was undone and redone
C30_Witness ==
    /\ last = "redo"
    /\ undos = MaxUndo
    /\ Len(state.undoStack) >= 2
    /\ Len(state.redoStack) = 0
    /\ state.undoStack[Len(state.undoStack)].initialRow = prev.from[1]
    /\ state.undoStack[Len(state.undoStack)].finalRow = prev.to[1]

\* the home corner of the rook a right belongs to, in the order of Rights
RightCorner == <<<<WHITE_BACK_RANK, ROOK_KS_COL>>, <<WHITE_BACK_RANK, ROOK_QS_COL>>,
                 <<BLACK_BACK_RANK, ROOK_KS_COL>>, <<BLACK_BACK_RANK, ROOK_QS_COL>>>>
RightTeam == <<TEAM_WHITE, TEAM_WHITE, TEAM_BLACK, TEAM_BLACK>>

\* the move from -> to on board b takes right i away: the side's king moves,
\* its rook leaves the corner, or its rook is captured on the corner
RuleClearsRight(b, from, to, i) ==
    LET p == b[from[1]][from[2]]
        t == b[to[1]][to[2]]
    IN  \/ p.team = RightTeam[i] /\ p.type = PIECE_KING
        \/ p.team = RightTeam[i] /\ p.type = PIECE_ROOK /\ from = RightCorner[i]
        \/ t.team = RightTeam[i] /\ t.type = PIECE_ROOK /\ to = RightCorner[i]

\* C31: for the selected piece and any flagged square, after MovePiece each
\* castling right is set exactly when it was set before and the move is none
\* of: a move of that side's king, a move of that side's rook from the
\* right's home corner, a capture of that side's rook on that corner.
C31_RightsClearedExactly ==
    (last = "select" /\ CellX # -1) =>
        \A d \in state.isvalid :
            LET moved == MovePiece(state, CellX, CellY, d[1], d[2])
            IN  \A i \in 1..4 :
                    Rights(moved)[i] =
                        (Rights(state)[i] /\ ~RuleClearsRight(state.board, <<CellX, CellY>>, d, i))

\* the white rook has just left a1 and captured the black rook on a8: both
\* queen-side rights were set and are gone
C31_Witness ==
    /\ last = "move"
    /\ prev.from = <<WHITE_BACK_RANK, ROOK_QS_COL>>
    /\ prev.to = <<BLACK_BACK_RANK, ROOK_QS_COL>>
    /\ prev.core.placement[prev.from[1]][prev.from[2]] = <<PIECE_ROOK, TEAM_WHITE>>
    /\ prev.core.placement[prev.to[1]][prev.to[2]] = <<PIECE_ROOK, TEAM_BLACK>>
    /\ prev.core.rights = <<FALSE, TRUE, FALSE, TRUE>>
    /\ Rights(state) = <<FALSE, FALSE, FALSE, FALSE>>

\* C32: when the selected king stands on its back rank and a square two files
\* away on that rank is flagged, MovePiece to that square leaves the king on
\* the c- or g-file, a rook of the side on the d- or f-file next to it, the
\* king's home square and the wing's corner empty, both rights of the side
\* cleared, the undo stack one record longer with wasCastling set, and the
\* turn with the other side.
C32_TwoFileKingMoveIsCastling ==
    (last = "select" /\ CellX # -1 /\ state.board[CellX][CellY].type = PIECE_KING
     /\ CellX = (IF state.turn = TEAM_WHITE THEN WHITE_BACK_RANK ELSE BLACK_BACK_RANK)) =>
        \A d \in state.isvalid : (d[1] = CellX /\ Abs(d[2] - CellY) = 2) =>
            LET moved == MovePiece(state, CellX, CellY, d[1], d[2])
                kingSide == d[2] > CellY
                rookCol == IF kingSide THEN CASTLE_KS_ROOK_COL ELSE CASTLE_QS_ROOK_COL
                corner == IF kingSide THEN ROOK_KS_COL ELSE ROOK_QS_COL
                side == IF state.turn = TEAM_WHITE THEN {1, 2} ELSE {3, 4}
            IN  /\ d[2] = (IF kingSide THEN CASTLE_KS_KING_COL ELSE CASTLE_QS_KING_COL)
                /\ Placement(moved.board)[CellX][d[2]] = <<PIECE_KING, state.turn>>
                /\ Placement(moved.board)[CellX][rookCol] = <<PIECE_ROOK, state.turn>>
                /\ moved.board[CellX][KING_START_COL].type = PIECE_NONE
                /\ moved.board[CellX][corner].type = PIECE_NONE
                /\ \A i \in side : ~Rights(moved)[i]
                /\ Len(moved.undoStack) = Len(state.undoStack) + 1
                /\ Front(moved.undoStack) = state.undoStack
                /\ moved.undoStack[Len(moved.undoStack)].wasCastling
                /\ moved.turn = Other(state.turn)

\* White has just castled king side
C32_Witness ==
    /\ last = "move"
    /\ prev.from = <<WHITE_BACK_RANK, KING_START_COL>>
    /\ prev.to = <<WHITE_BACK_RANK, CASTLE_KS_KING_COL>>
    /\ prev.core.placement[WHITE_BACK_RANK][ROOK_KS_COL] = <<PIECE_ROOK, TEAM_WHITE>>
    /\ prev.core.rights[1]
    /\ Placement(state.board)[WHITE_BACK_RANK][CASTLE_KS_KING_COL] = <<PIECE_KING, TEAM_WHITE>>
    /\ Placement(state.board)[WHITE_BACK_RANK][CASTLE_KS_ROOK_COL] = <<PIECE_ROOK, TEAM_WHITE>>
    /\ state.board[WHITE_BACK_RANK][ROOK_KS_COL].type = PIECE_NONE
    /\ state.undoStack[Len(state.undoStack)].wasCastling
    /\ state.turn = TEAM_BLACK

\* C33: when the selected pawn is offered an empty square on a neighbouring
\* file, an enemy pawn stands beside the selected pawn in that file, and
\* MovePiece to the square removes that pawn, leaves every square other than
\* source, destination and the removed pawn's as it was, and pushes a record
\* with wasEnPassant set and captured type pawn.
C33_EnPassantRemovesPawnBeside ==
    (last = "select" /\ CellX # -1 /\ state.board[CellX][CellY].type = PIECE_PAWN) =>
        \A d \in state.isvalid : (d[2] # CellY /\ state.board[d[1]][d[2]].type = PIECE_NONE) =>
            LET moved == MovePiece(state, CellX, CellY, d[1], d[2])
                move == moved.undoStack[Len(moved.undoStack)]
            IN  /\ Placement(state.board)[CellX][d[2]] = <<PIECE_PAWN, Other(state.turn)>>
                /\ moved.board[CellX][d[2]].type = PIECE_NONE
                /\ Placement(moved.board)[d[1]][d[2]] = <<PIECE_PAWN, state.turn>>
                /\ moved.board[CellX][CellY].type = PIECE_NONE
                /\ \A q \in Squares \ {<<CellX, CellY>>, d, <<CellX, d[2]>>} :
                       Placement(moved.board)[q[1]][q[2]] = Placement(state.board)[q[1]][q[2]]
                /\ Len(moved.undoStack) = Len(state.undoStack) + 1
                /\ move.wasEnPassant
                /\ move.pieceCapturedType = PIECE_PAWN

\* the board after one candidate has been simulated and taken back, as
\* FinalValidation and CheckmateFlagCheck do for each primaryValid square
SimulatedAndRestored(b, r1, c1, r2, c2) ==
    UndoSimulation(MoveSimulation(b, r1, c1, r2, c2, b[r1][c1].type),
                   r1, c1, r2, c2, b[r1][c1].type, b[r2][c2].type, b[r2][c2].team)

\* C34: after FinalValidation (a selection) and after CheckmateFlagCheck (the
\* end of every move, promotion, undo, redo and load) the board is as it was:
\* for every piece and every square, simulating the move and undoing
\* the simulation gives back the same board; and the vulnerable map is the
\* opponent scan of that position.
C34_SimulationRestoresBoard ==
    ((last = "select" /\ CellX # -1) \/ Settled) =>
        /\ \A q \in PiecesOf(state.board, TEAM_WHITE) \cup PiecesOf(state.board, TEAM_BLACK) :
               \A d \in Squares :
                   SimulatedAndRestored(state.board, q[1], q[2], d[1], d[2]) = state.board
        /\ state.vulnerable = ScanEnemyMoves(state.board, state.turn)

\* C35: after every committed ply, undo or redo the side to move is flagged
\* in check exactly when its king's square is attacked by an enemy piece in
\* the current position, and the side not to move is not flagged.
C35_CheckedFlagsMatchPosition ==
    (last \in {"move", "promote", "promoteLate", "undo", "undoMove", "redo"}) =>
        /\ Player(state, state.turn).Checked = RuleInCheck(state.board, state.turn)
        /\ ~Player(state, Other(state.turn)).Checked

\* a committed ply has just given check: the side to move is flagged
C35_Witness ==
    /\ last = "move"
    /\ RuleInCheck(state.board, state.turn)
    /\ Player(state, state.turn).Checked
    /\ ~Player(state, Other(state.turn)).Checked

\* a text whose fields are separated by tabs and a line feed, accepted:
\* 4k3/8/8/8/8/8/8/4K3 <TAB>b<TAB>KQ<TAB>e3<TAB>5<LF>6
TabbedText ==
    <<"4", "k", "3", "/", "8", "/", "8", "/", "8", "/", "8", "/", "8", "/", "8", "/", "4", "K", "3", " ", "\t", "b", "\t", "K", "Q", "\t", "e", "3", "\t", "5", "\n", "6">>

\* a text rejected in the placement field: 4k3/8/8/8/8/8/8/4K?2 w - - 0 1
BadPlacementText ==
    <<"4", "k", "3", "/", "8", "/", "8", "/", "8", "/", "8", "/", "8", "/", "8", "/", "4", "K", "?", "2", " ", "w", " ", "-", " ", "-", " ", "0", " ", "1">>

\* the texts given to the validating call: the standard start, the current
\* position as saved, a text separated by tabs, and texts malformed in each
\* of the five parts
TestedTexts == MalformedTexts \cup {BadPlacementText, TabbedText, STARTING_FEN, SaveFEN(state)}

\* C36: ReadFEN with testInputStringOnly = TRUE changes nothing of the
\* GameState (board, turn, rights, enPassantCol, clocks, hash history) and
\* gives the verdict the non-test call gives for the same text.  It is
\* evaluated in the states between clicks on the board: a selection changes
\* the isvalid flags only, which ReadFEN neither reads nor writes.
C36_TestModeReadsOnly ==
    (Running /\ last \notin {"select", "deselect"}) =>
        \A text \in TestedTexts :
            LET t == ReadFEN(state, text, TRUE)
            IN  /\ t.s = state
                /\ t.ok = ReadFEN(state, text, FALSE).ok

\* Black is to move after a White move; the standard start, accepted, would
\* in non-test mode rewrite the board, the turn and the history
C36_Witness ==
    /\ last = "move"
    /\ state.turn = TEAM_BLACK
    /\ ReadFEN(state, STARTING_FEN, TRUE).ok
    /\ ReadFEN(state, STARTING_FEN, TRUE).s = state
    /\ ReadFEN(state, STARTING_FEN, FALSE).s.turn = TEAM_WHITE
    /\ ReadFEN(state, STARTING_FEN, FALSE).s.board # state.board
    /\ ~ReadFEN(state, BadPlacementText, TRUE).ok
    /\ ReadFEN(state, TabbedText, TRUE).ok
    /\ ReadFEN(state, TabbedText, FALSE).s.fullMoveNumber = 6

\* both counters index the 16-entry dead-piece arrays or stand one past them
CountersInRange(s) ==
    /\ s.deadWhiteCounter \in 0..(BOARD_SIZE * 2)
    /\ s.deadBlackCounter \in 0..(BOARD_SIZE * 2)

\* the state with both counters at c: empty and full arrays are the two ends
\* a long game reaches
WithDeadCounters(s, c) == [s EXCEPT !.deadWhiteCounter = c, !.deadBlackCounter = c]

\* C37: deadWhiteCounter and deadBlackCounter stay within 0..16: in every
\* reachable state, and after any flagged move, undo or redo made with the
\* arrays empty or full.
C37_DeadCountersInRange ==
    Running =>
        /\ CountersInRange(state)
        /\ \A c \in {0, BOARD_SIZE * 2} :
               LET s == WithDeadCounters(state, c)
               IN  /\ (last = "select" /\ CellX # -1) =>
                          \A d \in state.isvalid : CountersInRange(MovePiece(s, CellX, CellY, d[1], d[2]))
                   /\ (last \in {"move", "redo"}) => CountersInRange(UndoMove(s))
                   /\ (last \in {"undo", "undoMove"}) => CountersInRange(RedoMove(s))

\* a capture is flagged: made with the captured side's array full it leaves
\* the counter at 16, and the undo of a capture with the array empty leaves 0
C37_Witness ==
    /\ last = "select"
    /\ CellX # -1
    /\ state.turn = TEAM_WHITE
    /\ \E d \in state.isvalid :
           /\ state.board[d[1]][d[2]].type # PIECE_NONE
           /\ MovePiece(state, CellX, CellY, d[1], d[2]).deadBlackCounter = state.deadBlackCounter + 1
           /\ MovePiece(WithDeadCounters(state, BOARD_SIZE * 2), CellX, CellY, d[1], d[2]).deadBlackCounter
                  = BOARD_SIZE * 2
           /\ LET m == MovePiece(state, CellX, CellY, d[1], d[2])
              IN  ~m.isPromoting /\ UndoMove(WithDeadCounters(m, 0)).deadBlackCounter = 0

\* the destinations flagged for the piece on (r, c) when it is selected in s
FlaggedFor(s, r, c) ==
    FinalValidation(s, r, c, PrimaryValidation(s, s.board[r][c].type, r, c, TRUE)).isvalid

\* C38: saving and reloading preserves play: whenever a piece of the side to
\* move is selected with no promotion pending, the destinations flagged for
\* it are those flagged for it after LoadGameFromFEN(SaveFEN()) of the state
\* it was selected in.
C38_ReloadKeepsFlaggedDestinations ==
    [][last' = "select" =>
           FlaggedFor(LoadGameFromFEN(state, SaveFEN(state)), CellX', CellY') = state'.isvalid]_vars

\* the king of team on its home square and a rook of team on the corner
\* that right i names
RightBacked(b, i) ==
    LET rank == RightCorner[i][1]
    IN  /\ b[rank][KING_START_COL].type = PIECE_KING
        /\ b[rank][KING_START_COL].team = RightTeam[i]
        /\ b[rank][RightCorner[i][2]].type = PIECE_ROOK
        /\ b[rank][RightCorner[i][2]].team = RightTeam[i]

\* C39: in every state reached from the standard starting position with no
\* promotion pending, a castling right that is set has its king on the home
\* square and its rook on the home corner.
C39_RightsBackedByKingAndRook ==
    (Running /\ FromStandardStart /\ ~state.isPromoting) =>
        \A i \in 1..4 : Rights(state)[i] => RightBacked(state.board, i)

\* C40: PopDHA on a non-empty history removes the most recently pushed hash
\* and returns that hash; on an empty history it returns the all-zero hash
\* and leaves the history empty.
C40_PopReturnsLastPushedHash ==
    [][last' = "PopDHA" =>
           IF state.DHA.size = 0
           THEN prev'.arg = ZeroHash /\ state'.DHA.size = 0
           ELSE /\ Stored(state'.DHA.hashArray, state'.DHA.size)
                       = Front(Stored(state.DHA.hashArray, state.DHA.size))
                /\ prev'.arg = state.DHA.hashArray[state.DHA.size]]_vars


====
